---- MODULE Spec2Model ----
(***************************************************************************)
(* Model of the penguin development server (LukasKalbertodt/penguin):      *)
(* the configuration builder, the request router, the control plane with   *)
(* its broadcast channel and WebSocket sessions, and the proxy backend's   *)
(* re-availability poller.                                                 *)
(*                                                                         *)
(* Strings that the code inspects character by character (URI paths) are   *)
(* sequences of one-character strings.                                     *)
(***************************************************************************)
EXTENDS Integers, Sequences, FiniteSets, TLC

\* ------------------------------------------------------------------------
\* Bounds of the model
\* ------------------------------------------------------------------------

\* Largest number of mounts a Builder accumulates.
MaxMounts == 2

\* Largest number of actions sent into the broadcast channel in one run.
MaxPublish == 3

\* Number of values the broadcast channel retains.  The server creates the
\* channel with ACTION_CHANNEL_SIZE = 64 (lib.rs); the model scales the
\* capacity down so that a receiver can fall behind within MaxPublish sends.
ChannelCapacity == 2

\* Largest number of WebSocket sessions opened in one run.
MaxSessions == 2

\* Largest number of proxied requests that hit a transport error in one run.
MaxRequests == 2

\* Largest number of poller tasks spawned in one run.
MaxPollers == 2

\* ------------------------------------------------------------------------
\* String helpers (std::str methods used by the code)
\* ------------------------------------------------------------------------

None == "None"

\* str::starts_with(prefix)
starts_with(s, p) ==
    /\ Len(p) <= Len(s)
    /\ SubSeq(s, 1, Len(p)) = p

\* str::ends_with(char)
ends_with(s, c) == Len(s) > 0 /\ s[Len(s)] = c

\* Option<T>: <<>> is None and <<x>> is Some(x).
Some(x) == <<x>>

\* str::strip_prefix(prefix): Some(rest of the string), or None
strip_prefix(s, p) ==
    IF starts_with(s, p) THEN Some(SubSeq(s, Len(p) + 1, Len(s))) ELSE <<>>

\* str::trim_start_matches(char)
RECURSIVE trim_start_matches(_, _)
trim_start_matches(s, c) ==
    IF Len(s) > 0 /\ s[1] = c THEN trim_start_matches(Tail(s), c) ELSE s

\* The String with the characters of a sequence of characters.
RECURSIVE Str(_)
Str(chars) == IF chars = <<>> THEN "" ELSE chars[1] \o Str(Tail(chars))

\* The sequence of the characters of a String.
Chars(s) == [i \in 1..Len(s) |-> SubSeq(s, i, i)]

\* ------------------------------------------------------------------------
\* Configuration (config.rs)
\* ------------------------------------------------------------------------

DEFAULT_CONTROL_PATH == <<"/", "~", "~", "p", "e", "n", "g", "u", "i", "n">>

\* Strings handed to Builder::add_mount as uri_path.
MountInputs ==
    { <<>>, <<"/">>, <<"a">>, <<"/", "a">>, <<"/", "a", "/">>,
      <<"a", "/", "/">>, <<"/", "a", "/", "b">>, <<"/", "a", "b">>,
      <<"/", "~", "~">> }

\* Directories handed to Builder::add_mount as fs_path.
FsPaths == { "./A", "./B" }

\* Strings handed to Builder::set_control_path.
ControlPathInputs ==
    { <<"/", "a">>, <<"c", "/">>, <<"/", "a", "/", "/">>, <<>> }

\* Proxy targets handed to Builder::proxy.
ProxyTargets == { "http://localhost:8000" }

\* Request paths the router is asked about.
RequestPaths ==
    { <<"/">>, <<"/", "a">>, <<"/", "a", "/", "b">>, <<"/", "a", "/", "b", "/", "x">>,
      <<"/", "a", "b", "c">>, <<"/", "a", "/", "x">>, <<"/", "c">>, <<"/", "c", "/", "r">>,
      <<"/", "x">>, <<"/", "~", "~", "x">>,
      DEFAULT_CONTROL_PATH,
      DEFAULT_CONTROL_PATH \o <<"/", "r", "e", "l", "o", "a", "d">>,
      DEFAULT_CONTROL_PATH \o <<"x">> }

\* normalize_path: drop one trailing '/', then make the path start with '/'.
normalize_path(path) ==
    LET popped == IF Len(path) > 1 /\ ends_with(path, "/")
                  THEN SubSeq(path, 1, Len(path) - 1)
                  ELSE path
    IN  IF ~starts_with(popped, <<"/">>) THEN <<"/">> \o popped ELSE popped

\* Builder::new: no proxy, the default control path, no mounts.
BuilderNew ==
    [ bind_addr |-> "127.0.0.1:4090", proxy |-> None,
      control_path |-> DEFAULT_CONTROL_PATH, mounts |-> <<>> ]

VARIABLES
    builder,    \* Builder(Config): the configuration being accumulated
    result,     \* outcome of the builder calls so far
    routed,     \* the routing decision of the last request routed
    published,  \* every action sent into the broadcast channel, in send order
    sessions,   \* the WebSocket session tasks
    response,   \* the request answered by the step just taken and its response
    is_polling_target,  \* ProxyContext::is_polling_target
    target_up,  \* whether the proxy target accepts connections
    requests,   \* the proxied requests that hit a transport error
    pollers,    \* the re-availability poller tasks spawned so far
    disk,       \* the file system of the machine: the node at every path
    forwarded,  \* the request last sent to the proxy target and its answer
    senders,    \* who holds a Sender of the broadcast channel
    proxy_target,  \* the string last given to ProxyTarget::from_str and the result
    waiter,     \* the util::wait_for_proxy call and the clock it runs against
    sockets,    \* the WebSocket of every session: failed sends, flushes
    watcher     \* the thread of watch, its event channel and the clock

cfgvars == <<builder, result, routed>>
chanvars == <<published, sessions, response>>
proxyvars == <<is_polling_target, target_up, requests, pollers>>
restvars == <<forwarded, senders, proxy_target, waiter, sockets, watcher>>
vars == <<builder, result, routed, published, sessions, response,
          is_polling_target, target_up, requests, pollers, disk,
          forwarded, senders, proxy_target, waiter, sockets, watcher>>

\* mounts.iter().any(|other| other.uri_path == uri_path)
HasMount(mounts, uri_path) ==
    \E i \in 1..Len(mounts) : mounts[i].uri_path = uri_path

\* Builder::add_mount
add_mount(uri_path, fs_path) ==
    /\ result = "building"
    /\ Len(builder.mounts) < MaxMounts
    /\ LET normalized == normalize_path(uri_path)
       IN  IF HasMount(builder.mounts, normalized)
           THEN /\ result' = "DuplicateUriPath"
                /\ UNCHANGED builder
           ELSE /\ builder' = [builder EXCEPT !.mounts =
                       Append(@, [uri_path |-> normalized, fs_path |-> fs_path])]
                /\ UNCHANGED result
    /\ UNCHANGED <<routed, chanvars, proxyvars, disk, restvars>>

\* Builder::proxy: panics when called a second time.
proxy(target) ==
    /\ result = "building"
    /\ IF builder.proxy # None
       THEN /\ result' = "panic"
            /\ UNCHANGED builder
       ELSE /\ builder' = [builder EXCEPT !.proxy = target]
            /\ UNCHANGED result
    /\ UNCHANGED <<routed, chanvars, proxyvars, disk, restvars>>

\* Builder::set_control_path
set_control_path(path) ==
    /\ result = "building"
    /\ builder' = [builder EXCEPT !.control_path = normalize_path(path)]
    /\ UNCHANGED <<result, routed, chanvars, proxyvars, disk, restvars>>

\* Builder::validate without the check for a mount on "/" next to a proxy.
validate_no_root_check ==
    /\ result = "building"
    /\ result' =
         IF builder.proxy = None /\ builder.mounts = <<>>
         THEN "NoProxyOrMount"
         ELSE "Config"
    /\ UNCHANGED <<builder, routed, chanvars, proxyvars, disk, restvars>>

\* Builder::validate
validate ==
    /\ result = "building"
    /\ result' =
         IF builder.proxy = None /\ builder.mounts = <<>>
         THEN "NoProxyOrMount"
         ELSE IF builder.proxy # None /\ HasMount(builder.mounts, <<"/">>)
              THEN "ProxyAndRootMount"
              ELSE "Config"
    /\ UNCHANGED <<builder, routed, chanvars, proxyvars, disk, restvars>>

\* ------------------------------------------------------------------------
\* Router (serve/mod.rs, serve/fs.rs)
\* ------------------------------------------------------------------------

\* Iterator::max_by_key(|(_, mount)| mount.uri_path.len()) over the matching
\* mounts: of several maximal elements the last one is returned.
RECURSIVE max_by_key(_, _)
max_by_key(items, best) ==
    IF items = <<>> THEN best
    ELSE max_by_key(Tail(items),
            IF best = <<>> \/ Len(Head(items).mount.uri_path) >= Len(best[1].mount.uri_path)
            THEN Some(Head(items))
            ELSE best)

\* The filter_map of try_serve: the mounts whose uri_path can be stripped off
\* the request path, each with its subpath (leading slashes trimmed).
RECURSIVE filter_map(_, _)
filter_map(path, mounts) ==
    IF mounts = <<>> THEN <<>>
    ELSE LET stripped == strip_prefix(path, Head(mounts).uri_path)
             rest == filter_map(path, Tail(mounts))
         IN  IF stripped = <<>> THEN rest
             ELSE <<[subpath |-> trim_start_matches(stripped[1], "/"),
                     mount |-> Head(mounts)]>> \o rest

\* try_serve with the first matching mount instead of the longest one.
try_serve_first_match(path, mounts) ==
    LET matching == filter_map(path, mounts)
    IN  IF matching = <<>> THEN <<>> ELSE Some(Head(matching))

\* try_serve: Some((subpath, mount)) for the most specific matching mount,
\* None if no mount matches.
try_serve(path, mounts) == max_by_key(filter_map(path, mounts), <<>>)

\* handle, with the mounts asked before the control path.
backend_mounts_first(path, config) ==
    IF try_serve(path, config.mounts) # <<>> THEN "file"
    ELSE IF starts_with(path, config.control_path) THEN "control"
    ELSE IF config.proxy # None THEN "proxy"
    ELSE "not_found"

\* The if/else chain of handle: which backend produces the response.
backend(path, config) ==
    IF starts_with(path, config.control_path) THEN "control"
    ELSE IF try_serve(path, config.mounts) # <<>> THEN "file"
    ELSE IF config.proxy # None THEN "proxy"
    ELSE "not_found"

NotRouted == [path |-> <<>>, backend |-> "none", served |-> <<>>]

\* handle applied to a request path under the validated configuration:
\* records the backend and, for the file backend, what try_serve selected.
route(path) ==
    /\ result = "Config"
    /\ routed' = [path |-> path,
                  backend |-> backend(path, builder),
                  served |-> IF backend(path, builder) = "file"
                             THEN try_serve(path, builder.mounts)
                             ELSE <<>>]
    /\ UNCHANGED <<builder, result, chanvars, proxyvars, disk, restvars>>

\* ------------------------------------------------------------------------
\* Control plane: actions, broadcast channel, control handler (lib.rs,
\* serve/mod.rs)
\* ------------------------------------------------------------------------

\* enum Action
Reload == <<"Reload">>
Message(msg) == <<"Message", msg>>

\* Request bodies: UTF-8 text, or bytes that are not UTF-8.  `error` says
\* that the download of the body (hyper::body::to_bytes) fails.
Bodies ==
    { [utf8 |-> TRUE, text |-> "hi", error |-> FALSE],
      [utf8 |-> FALSE, text |-> "", error |-> FALSE] }
EmptyBody == [utf8 |-> TRUE, text |-> "", error |-> FALSE]

\* Strings handed to Controller::show_message.
ControllerMessages == { "hi" }

Path_reload == <<"/", "r", "e", "l", "o", "a", "d">>
Path_message == <<"/", "m", "e", "s", "s", "a", "g", "e">>

\* Requests under the control path.  `upgrade` is what is_upgrade_request
\* answers, `valid` whether hyper_tungstenite::upgrade accepts the request,
\* `range` the Range header when there is one.
ControlRequests ==
    { [method |-> "POST", path |-> DEFAULT_CONTROL_PATH \o Path_reload,
       upgrade |-> FALSE, valid |-> FALSE, body |-> EmptyBody, range |-> <<>>],
      [method |-> "GET", path |-> DEFAULT_CONTROL_PATH \o Path_reload,
       upgrade |-> FALSE, valid |-> FALSE, body |-> EmptyBody, range |-> <<>>],
      [method |-> "POST", path |-> DEFAULT_CONTROL_PATH \o <<"/", "x">>,
       upgrade |-> FALSE, valid |-> FALSE, body |-> EmptyBody, range |-> <<>>],
      [method |-> "GET", path |-> DEFAULT_CONTROL_PATH,
       upgrade |-> TRUE, valid |-> TRUE, body |-> EmptyBody, range |-> <<>>],
      [method |-> "GET", path |-> DEFAULT_CONTROL_PATH,
       upgrade |-> TRUE, valid |-> FALSE, body |-> EmptyBody, range |-> <<>>] }
    \cup
    { [method |-> "POST", path |-> DEFAULT_CONTROL_PATH \o Path_message,
       upgrade |-> FALSE, valid |-> FALSE, body |-> b, range |-> <<>>] : b \in Bodies }

\* The request forwarded to the proxy target.
ProxiedRequest ==
    [method |-> "GET", path |-> <<"/", "x">>,
     upgrade |-> FALSE, valid |-> FALSE, body |-> EmptyBody, range |-> <<>>]

NoRequest ==
    [method |-> "", path |-> <<>>, upgrade |-> FALSE, valid |-> FALSE, body |-> EmptyBody, range |-> <<>>]

\* The headers of a response that the model follows; <<>> is a header that
\* is not set.
NoHeaders ==
    [server |-> <<>>, content_type |-> <<>>, content_length |-> <<>>,
     content_range |-> <<>>, accept_ranges |-> <<>>]

\* concat!("Penguin v", env!("CARGO_PKG_VERSION"))
SERVER_HEADER == "Penguin v<version>"

\* Response::builder().header("Server", SERVER_HEADER)
ServerHeaders == [NoHeaders EXCEPT !.server = <<SERVER_HEADER>>]

\* A response to `req`; `served` is the file or directory whose content the
\* file backend put into the body, <<>> for every other response.
Response(req, status, headers, body) ==
    [req |-> req, status |-> status, headers |-> headers, body |-> body,
     served |-> <<>>]

\* No request was answered by the step just taken.
NoResponse == Response(NoRequest, 0, NoHeaders, "")

\* Response::new(Body::empty())
EmptyOk(req) == Response(req, 200, NoHeaders, "")

\* bad_request(msg)
bad_request(req, msg) == Response(req, 400, ServerHeaders, msg)

\* not_found()
not_found(req) == Response(req, 404, ServerHeaders, "Not found\n")

\* The configuration the running server was built from: a proxy, the default
\* control path and one mount (what Builder::validate returns after
\* proxy(..) and add_mount("/a", "./A")).
ServerConfig ==
    [ bind_addr |-> "127.0.0.1:4090",
      proxy |-> "http://localhost:8000",
      control_path |-> DEFAULT_CONTROL_PATH,
      mounts |-> <<[uri_path |-> <<"/", "a">>, fs_path |-> "./A"]>> ]

\* Sender::send: the value is appended to the channel; the number of
\* receivers (or the error when there is none) is ignored by every caller.
send(channel, action) == Append(channel, action)

\* A session slot that was never used.
NoSession ==
    [pc |-> "none", at |-> 0, next |-> 1, indices |-> <<>>, frames |-> <<>>, lagged |-> 0]

\* The least free session slot, 0 if there is none.
FreeSession ==
    IF \E s \in 1..MaxSessions : sessions[s].pc = "none"
    THEN CHOOSE s \in 1..MaxSessions :
            /\ sessions[s].pc = "none"
            /\ \A t \in 1..(s - 1) : sessions[t].pc # "none"
    ELSE 0

\* A subscription whose receiver starts at the head of the channel.
subscribe_from_head(s) ==
    [sessions EXCEPT ![s] =
        [pc |-> "handshake", at |-> Len(published), next |-> 1,
         indices |-> <<>>, frames |-> <<>>, lagged |-> 0]]

\* Sender::subscribe followed by tokio::spawn(ws::handle_connection(..)):
\* the receiver starts at the tail of the channel, the task awaits the
\* WebSocket handshake.
subscribe(s) ==
    [sessions EXCEPT ![s] =
        [pc |-> "handshake", at |-> Len(published), next |-> Len(published) + 1,
         indices |-> <<>>, frames |-> <<>>, lagged |-> 0]]

\* What the non-upgrade branch of handle_control publishes for a request
\* with no publish on POST /reload.
control_actions_no_reload(req, subpath) ==
    IF req.method = "POST" /\ subpath = Path_message /\ req.body.utf8
    THEN <<Message(req.body.text)>>
    ELSE <<>>

\* What the non-upgrade branch of handle_control publishes for a request
\* when the body of POST /message is published without the UTF-8 check.
control_actions_unchecked_body(req, subpath) ==
    IF req.method = "POST" /\ subpath = Path_reload
    THEN <<Reload>>
    ELSE IF req.method = "POST" /\ subpath = Path_message
         THEN <<Message(req.body.text)>>
         ELSE <<>>

\* What the non-upgrade branch of handle_control publishes for a request.
control_actions(req, subpath) ==
    IF req.method = "POST" /\ subpath = Path_reload
    THEN <<Reload>>
    ELSE IF req.method = "POST" /\ subpath = Path_message /\ req.body.utf8
         THEN <<Message(req.body.text)>>
         ELSE <<>>

\* The response of the non-upgrade branch of handle_control when the error
\* of Sender::send (no receiver) is turned into an error response.
control_response_send_error(req, subpath) ==
    IF \A s \in 1..MaxSessions : sessions[s].pc \notin {"handshake", "loop"}
    THEN Response(req, 500, ServerHeaders, "channel closed\n")
    ELSE IF req.method = "POST" /\ subpath \in {Path_reload, Path_message}
              /\ (subpath = Path_message => req.body.utf8)
         THEN EmptyOk(req)
         ELSE bad_request(req, "Invalid request to libpenguin control path\n")

\* The response of the non-upgrade branch of handle_control.
control_response(req, subpath) ==
    IF req.method = "POST" /\ subpath = Path_reload
    THEN EmptyOk(req)
    ELSE IF req.method = "POST" /\ subpath = Path_message
         THEN IF req.body.utf8
              THEN EmptyOk(req)
              ELSE bad_request(req, "Bad request: request body is not UTF8\n")
         ELSE bad_request(req, "Invalid request to libpenguin control path\n")

\* ------------------------------------------------------------------------
\* Script injection (inject.rs)
\* ------------------------------------------------------------------------

\* str::replace
RECURSIVE replace(_, _, _)
replace(s, from, to) ==
    IF s = "" THEN ""
    ELSE IF starts_with(s, from)
         THEN to \o replace(SubSeq(s, Len(from) + 1, Len(s)), from, to)
         ELSE SubSeq(s, 1, 1) \o replace(SubSeq(s, 2, Len(s)), from, to)

\* include_str!("generated/browser.js"): the client, which names the control
\* path where it opens its WebSocket.
JS_CODE == "ws('{{ control_path }}');log('{{ control_path }}')"

\* inject::script
script(config) == replace(JS_CODE, "{{ control_path }}", Str(config.control_path))

\* The loop of inject::into without the tracking of comments.
RECURSIVE body_close_idx_any(_, _, _, _)
body_close_idx_any(input, i, inside_comment, found) ==
    IF i >= Len(input) THEN found
    ELSE IF starts_with(SubSeq(input, i + 1, Len(input)), "</body>")
         THEN body_close_idx_any(input, i + 1, inside_comment, i)
         ELSE body_close_idx_any(input, i + 1, inside_comment, found)

\* The loop of inject::into over the positions of `input`: the index of the
\* last "</body>" outside of a comment, -1 if there is none.
RECURSIVE body_close_idx(_, _, _, _)
body_close_idx(input, i, inside_comment, found) ==
    IF i >= Len(input) THEN found
    ELSE LET rest == SubSeq(input, i + 1, Len(input))
         IN  IF ~inside_comment /\ starts_with(rest, "</body>")
             THEN body_close_idx(input, i + 1, inside_comment, i)
             ELSE IF ~inside_comment /\ starts_with(rest, "<!--")
                  THEN body_close_idx(input, i + 1, TRUE, found)
                  ELSE IF inside_comment /\ starts_with(rest, "-->")
                       THEN body_close_idx(input, i + 1, FALSE, found)
                       ELSE body_close_idx(input, i + 1, inside_comment, found)

\* The src attribute of the script tag that inject::into writes.
script_src(config) == Str(config.control_path) \o "/client.js"

\* inject::into
into(input, config) ==
    LET idx == body_close_idx(input, 0, FALSE, -1)
        insert_idx == IF idx = -1 THEN Len(input) ELSE idx
        script_tag == "<script src=\"" \o script_src(config) \o "\" defer></script>"
    IN  SubSeq(input, 1, insert_idx) \o script_tag
            \o SubSeq(input, insert_idx + 1, Len(input))

\* ------------------------------------------------------------------------
\* Panics of a handler (serve/mod.rs)
\* ------------------------------------------------------------------------

\* What a handler future yields: a response, or a panic with its payload
\* (a String for panic!/expect with a formatted message, a &str for todo!
\* and literal messages, any other type for panic_any).
Returned(resp) == [panicked |-> FALSE, type |-> "", text |-> "", response |-> resp]
Panicked(type, text) ==
    [panicked |-> TRUE, type |-> type, text |-> text, response |-> NoResponse]

\* internal_server_error(msg)
internal_server_error(req, msg) ==
    Response(req, 500, ServerHeaders,
             "Internal server error: this is a bug in Penguin!\n\n" \o msg \o "\n")

\* handle_internal_errors with the downcast to &str left out.
handle_internal_errors_string_only(req, outcome) ==
    IF ~outcome.panicked THEN outcome.response
    ELSE internal_server_error(req,
            IF outcome.type = "String" THEN outcome.text ELSE "panic")

\* handle_internal_errors: catch_unwind around the handler future; the
\* payload is shown when it downcasts to String or &str.
handle_internal_errors(req, outcome) ==
    IF ~outcome.panicked THEN outcome.response
    ELSE LET msg == IF outcome.type \in {"String", "&str"}
                    THEN Some(outcome.text) ELSE <<>>
         IN  internal_server_error(req, IF msg = <<>> THEN "panic" ELSE msg[1])

\* The response of hyper_tungstenite::upgrade: 101 Switching Protocols with
\* the Connection, Upgrade and Sec-WebSocket-Accept headers.
SwitchingProtocols(req) == Response(req, 101, NoHeaders, "")

\* The non-upgrade branch of handle_control as a future: the expect on the
\* download of the body of POST /message panics when the download fails.
control_outcome(req, subpath) ==
    IF req.method = "POST" /\ subpath = Path_message /\ req.body.error
    THEN Panicked("String", "failed to download message body: hyper::Error(Body)")
    ELSE Returned(control_response(req, subpath))

\* handle for a request that starts with the control path: handle_control.
handle_control(req) ==
    /\ result = "Config"
    /\ senders.server
    /\ backend(req.path, builder) = "control"
    /\ IF req.upgrade
       THEN IF req.valid
            THEN /\ FreeSession # 0
                 /\ sessions' = subscribe(FreeSession)
                 /\ response' = SwitchingProtocols(req)
                 /\ UNCHANGED published
            ELSE /\ response' = bad_request(req, "Failed to upgrade to WS connection\n")
                 /\ UNCHANGED <<published, sessions>>
       ELSE LET subpath == strip_prefix(req.path, builder.control_path)[1]
                actions == control_actions(req, subpath)
            IN  /\ Len(published) + Len(actions) <= MaxPublish
                /\ published' = IF actions = <<>> THEN published
                                 ELSE send(published, actions[1])
                /\ response' = handle_internal_errors(req, control_outcome(req, subpath))
                /\ UNCHANGED sessions
    /\ UNCHANGED <<cfgvars, proxyvars, disk, restvars>>

\* Controller::reload
controller_reload ==
    /\ result = "Config"
    /\ senders.controllers > 0
    /\ Len(published) < MaxPublish
    /\ published' = send(published, Reload)
    /\ response' = NoResponse
    /\ UNCHANGED <<sessions, cfgvars, proxyvars, disk, restvars>>

\* Controller::show_message
controller_show_message(msg) ==
    /\ result = "Config"
    /\ senders.controllers > 0
    /\ Len(published) < MaxPublish
    /\ published' = send(published, Message(msg))
    /\ response' = NoResponse
    /\ UNCHANGED <<sessions, cfgvars, proxyvars, disk, restvars>>

\* ------------------------------------------------------------------------
\* WebSocket session (ws.rs)
\* ------------------------------------------------------------------------

\* What websocket.next() yields: the end of the stream, frames, errors.
PeerMessages ==
    { "None", "Close", "Ping", "ResetWithoutClosingHandshake", "Error", "Text" }

\* The first index of the channel that is still retained.
Oldest(channel) ==
    IF Len(channel) > ChannelCapacity THEN Len(channel) - ChannelCapacity + 1 ELSE 1

\* Receiver::recv that hands out the newest value without moving the cursor
\* past the values before it.
recv_newest(sess, channel) ==
    IF sess.next <= Len(channel)
    THEN [kind |-> "Ok", action |-> channel[Len(channel)], index |-> Len(channel),
          next |-> sess.next + 1, skipped |-> 0]
    ELSE [kind |-> "Pending", action |-> <<>>, index |-> 0, next |-> sess.next,
          skipped |-> 0]

\* Receiver::recv on a channel that keeps every value for every receiver.
recv_unbounded(sess, channel) ==
    IF sess.next <= Len(channel)
    THEN [kind |-> "Ok", action |-> channel[sess.next], index |-> sess.next,
          next |-> sess.next + 1, skipped |-> 0]
    ELSE [kind |-> "Pending", action |-> <<>>, index |-> 0, next |-> sess.next,
          skipped |-> 0]

\* Receiver::recv as polled by the select! of handle_connection: Lagged(n)
\* when the value at the cursor was overwritten (the cursor then moves to the
\* oldest retained value), the value at the cursor when there is one, and
\* pending otherwise.
recv(sess, channel) ==
    IF sess.next < Oldest(channel)
    THEN [kind |-> "Lagged", action |-> <<>>, index |-> 0,
          next |-> Oldest(channel), skipped |-> Oldest(channel) - sess.next]
    ELSE IF sess.next <= Len(channel)
         THEN [kind |-> "Ok", action |-> channel[sess.next], index |-> sess.next,
               next |-> sess.next + 1, skipped |-> 0]
         ELSE [kind |-> "Pending", action |-> <<>>, index |-> 0, next |-> sess.next,
               skipped |-> 0]

\* The text of the frame with Message sent like Reload.
data_reload_only(action) == "reload"

\* The text of the frame sent for an action.
data(action) ==
    IF action = Reload THEN "reload" ELSE "message\n" \o action[2]

\* A session whose task has returned: the socket and the receiver are
\* dropped with it.
Ended ==
    [pc |-> "ended", at |-> 0, next |-> 1, indices |-> <<>>, frames |-> <<>>, lagged |-> 0]

\* The Lagged arm breaking out of the loop.
lagged_break(sess, r) ==
    [sess EXCEPT !.pc = "ended", !.next = r.next, !.lagged = @ + 1]

\* The Lagged arm: log and continue with the loop.
lagged_continue(sess, r) ==
    [sess EXCEPT !.next = r.next, !.lagged = @ + 1]

\* The Ok arms: the frame for the action is handed to websocket.send, which
\* takes it; the loop goes on.
deliver(sess, r) ==
    [sess EXCEPT !.next = r.next,
                 !.indices = Append(@, r.index),
                 !.frames = Append(@, data(r.action))]

\* A task that subscribes its receiver once the handshake is done.
session_handshake_subscribes(s, ok) ==
    /\ sessions[s].pc = "handshake"
    /\ sessions' = [sessions EXCEPT ![s] =
            IF ok THEN [@ EXCEPT !.pc = "loop", !.at = Len(published),
                                 !.next = Len(published) + 1]
            ELSE Ended]
    /\ response' = NoResponse
    /\ UNCHANGED <<published, cfgvars, proxyvars, disk, restvars>>

\* handle_connection: websocket.await, the handshake of the upgraded
\* connection; on an error the task returns.
session_handshake(s, ok) ==
    /\ sessions[s].pc = "handshake"
    /\ sessions' = [sessions EXCEPT ![s] = IF ok THEN [@ EXCEPT !.pc = "loop"] ELSE Ended]
    /\ response' = NoResponse
    /\ UNCHANGED <<published, cfgvars, proxyvars, disk, restvars>>

\* handle_connection: the actions.recv() branch of the select!.
session_recv(s) ==
    /\ sessions[s].pc = "loop"
    /\ LET r == recv(sessions[s], published)
       IN  /\ r.kind # "Pending"
           /\ sessions' = [sessions EXCEPT ![s] =
                   IF r.kind = "Lagged" THEN lagged_continue(@, r) ELSE deliver(@, r)]
    /\ response' = NoResponse
    /\ UNCHANGED <<published, cfgvars, proxyvars, disk, restvars>>

\* Whether the loop ends after websocket.next() yielded `message`.
peer_ends(message) ==
    message \in { "None", "Close", "ResetWithoutClosingHandshake", "Error" }

\* handle_connection: the websocket.next() branch of the select!.
session_peer(s, message) ==
    /\ sessions[s].pc = "loop"
    /\ sessions' = [sessions EXCEPT ![s] = IF peer_ends(message) THEN Ended ELSE @]
    /\ response' = NoResponse
    /\ UNCHANGED <<published, cfgvars, proxyvars, disk, restvars>>

\* ------------------------------------------------------------------------
\* Proxy backend: transport errors and the re-availability poller
\* (serve/proxy.rs)
\* ------------------------------------------------------------------------

\* A proxied request that has not arrived yet.
NoForward == [pc |-> "idle", at |-> 0]

\* The least request slot that is still idle, 0 if there is none.
IdleRequest ==
    IF \E r \in 1..MaxRequests : requests[r].pc = "idle"
    THEN CHOOSE r \in 1..MaxRequests :
            /\ requests[r].pc = "idle"
            /\ \A q \in 1..(r - 1) : requests[q].pc # "idle"
    ELSE 0

\* The least poller slot that was not spawned yet, 0 if there is none.
FreePoller ==
    IF \E p \in 1..MaxPollers : pollers[p] = "unspawned"
    THEN CHOOSE p \in 1..MaxPollers :
            /\ pollers[p] = "unspawned"
            /\ \A q \in 1..(p - 1) : pollers[q] # "unspawned"
    ELSE 0

\* A plain store of true in place of the compare-and-swap: always succeeds.
swap_unconditionally(flag) == [ok |-> TRUE, value |-> TRUE]

\* AtomicBool::compare_exchange(false, true, SeqCst, SeqCst): whether the
\* exchange succeeded and the value of the flag afterwards.
compare_exchange(flag) ==
    IF flag = FALSE THEN [ok |-> TRUE, value |-> TRUE] ELSE [ok |-> FALSE, value |-> flag]

\* forward: client.request(req) returns an error because the target cannot
\* be reached.
forward_err ==
    /\ result = "Config"
    /\ senders.server
    /\ backend(ProxiedRequest.path, builder) = "proxy"
    /\ ~target_up
    /\ IdleRequest # 0
    /\ requests' = [requests EXCEPT ![IdleRequest].pc = "failed"]
    /\ response' = NoResponse
    /\ UNCHANGED <<is_polling_target, target_up, pollers, published, sessions, cfgvars, disk, restvars>>

\* start_polling: the compare-and-swap on is_polling_target; the loser
\* returns at once.
start_polling_cas(r) ==
    /\ requests[r].pc = "failed"
    /\ LET cas == compare_exchange(is_polling_target)
       IN  /\ is_polling_target' = cas.value
           /\ requests' = [requests EXCEPT ![r].pc = IF cas.ok THEN "spawning" ELSE "polled"]
    /\ response' = NoResponse
    /\ UNCHANGED <<target_up, pollers, published, sessions, cfgvars, disk, restvars>>

\* start_polling: tokio::spawn of the poller task by the winner.
start_polling_spawn(r) ==
    /\ requests[r].pc = "spawning"
    /\ FreePoller # 0
    /\ pollers' = [pollers EXCEPT ![FreePoller] = "sleep"]
    /\ requests' = [requests EXCEPT ![r].pc = "polled"]
    /\ response' = NoResponse
    /\ UNCHANGED <<is_polling_target, target_up, published, sessions, cfgvars, disk, restvars>>

\* forward: gateway_error builds the response that is returned, 504 for a
\* timeout and 502 otherwise.
gateway_error(r, timeout) ==
    /\ requests[r].pc = "polled"
    /\ requests' = [requests EXCEPT ![r] = [pc |-> "responded", at |-> Len(published)]]
    /\ response' = Response(ProxiedRequest, IF timeout THEN 504 ELSE 502,
                             [ServerHeaders EXCEPT !.content_type = <<"text/html">>],
                             "proxy-error.html")
    /\ UNCHANGED <<is_polling_target, target_up, pollers, published, sessions, cfgvars, disk, restvars>>

\* A poller loop that takes every probe for a success.
poller_probe_optimistic(p) ==
    /\ pollers[p] = "sleep"
    /\ pollers' = [pollers EXCEPT ![p] = "connected"]
    /\ response' = NoResponse
    /\ UNCHANGED <<is_polling_target, target_up, requests, published, sessions, cfgvars, disk, restvars>>

\* The poller loop: sleep, then client.get(uri); on an error the loop goes
\* round again.
poller_probe(p) ==
    /\ pollers[p] = "sleep"
    /\ pollers' = [pollers EXCEPT ![p] = IF target_up THEN "connected" ELSE "sleep"]
    /\ response' = NoResponse
    /\ UNCHANGED <<is_polling_target, target_up, requests, published, sessions, cfgvars, disk, restvars>>

\* The probe of a poller whose sleep (250 ms at least) outlasts the
\* synchronous section of forward between the compare-and-swap and the
\* return of the gateway error: no request is inside that section when the
\* probe completes.
poller_probe_after_sleep(p) ==
    /\ \A r \in 1..MaxRequests : requests[r].pc \notin {"spawning", "polled"}
    /\ poller_probe(p)

\* The poller after a successful probe: actions.send(Action::Reload).
poller_send(p) ==
    /\ pollers[p] = "connected"
    /\ Len(published) < MaxPublish
    /\ published' = send(published, Reload)
    /\ pollers' = [pollers EXCEPT ![p] = "sent"]
    /\ response' = NoResponse
    /\ UNCHANGED <<is_polling_target, target_up, requests, sessions, cfgvars, disk, restvars>>

\* The poller's last step: is_polling.store(false), then the task ends.
poller_clear(p) ==
    /\ pollers[p] = "sent"
    /\ is_polling_target' = FALSE
    /\ pollers' = [pollers EXCEPT ![p] = "exited"]
    /\ response' = NoResponse
    /\ UNCHANGED <<target_up, requests, published, sessions, cfgvars, disk, restvars>>

\* start_polling: the winner of the compare-and-swap panics before
\* tokio::spawn, in HttpsConnector::new() when the TLS connector cannot be
\* built; handle_internal_errors answers with 500 and nothing resets the
\* flag.
start_polling_panic(r) ==
    /\ requests[r].pc = "spawning"
    /\ requests' = [requests EXCEPT ![r].pc = "panicked"]
    /\ response' = handle_internal_errors(ProxiedRequest,
                        Panicked("String", "HttpsConnector::new() failure"))
    /\ UNCHANGED <<is_polling_target, target_up, pollers, published, sessions, cfgvars, disk, restvars>>

\* The proxy target goes down or comes back.
target_flip ==
    /\ target_up' = ~target_up
    /\ response' = NoResponse
    /\ UNCHANGED <<is_polling_target, requests, pollers, published, sessions, cfgvars, disk, restvars>>

\* ------------------------------------------------------------------------
\* File backend: paths and the file system (std::path, std::fs as used by
\* serve/fs.rs)
\* ------------------------------------------------------------------------

\* The index of the first '/' of a String, Len + 1 if there is none.
find_slash(s) ==
    CHOOSE k \in 1..(Len(s) + 1) :
        /\ k = Len(s) + 1 \/ SubSeq(s, k, k) = "/"
        /\ \A j \in 1..(k - 1) : SubSeq(s, j, j) # "/"

\* Path::components: the names between the separators; repeated separators
\* and "." are dropped, ".." is kept.
RECURSIVE components(_)
components(s) ==
    IF s = "" THEN <<>>
    ELSE IF SubSeq(s, 1, 1) = "/" THEN components(SubSeq(s, 2, Len(s)))
         ELSE LET k == find_slash(s)
                  name == SubSeq(s, 1, k - 1)
                  rest == components(SubSeq(s, k, Len(s)))
              IN  IF name = "." THEN rest ELSE <<name>> \o rest

\* Path::is_absolute
is_absolute(s) == Len(s) > 0 /\ SubSeq(s, 1, 1) = "/"

\* Path::join: an absolute argument replaces the path.
join(base, s) ==
    IF is_absolute(s) THEN s
    ELSE IF base = "" \/ SubSeq(base, Len(base), Len(base)) = "/" THEN base \o s
         ELSE base \o "/" \o s

\* Nodes of the file system.  A symbolic link holds the absolute path it
\* points to.
Dir == [kind |-> "dir", content |-> "", target |-> ""]
File(content) == [kind |-> "file", content |-> content, target |-> ""]
Link(target) == [kind |-> "link", content |-> "", target |-> target]

\* How many symbolic links a path resolution follows before it fails with
\* ELOOP.
MAXSYMLINKS == 3

\* A resolved path, or the error of the resolution.
Resolved(path) == [err |-> "", path |-> path]
Failed(err) == [err |-> err, path |-> <<>>]

\* realpath(3): walks `names` from the directory `cur` (a sequence of names
\* from the root of the file system), following symbolic links.
RECURSIVE resolve(_, _, _, _)
resolve(fs, cur, names, links) ==
    IF names = <<>> THEN Resolved(cur)
    ELSE IF fs[cur].kind # "dir" THEN Failed("NotADirectory")
    ELSE IF Head(names) = ".."
         THEN resolve(fs, IF cur = <<>> THEN <<>> ELSE SubSeq(cur, 1, Len(cur) - 1),
                      Tail(names), links)
    ELSE LET p == Append(cur, Head(names))
         IN  IF p \notin DOMAIN fs THEN Failed("NotFound")
             ELSE IF fs[p].kind = "link"
                  THEN IF links = 0 THEN Failed("FilesystemLoop")
                       ELSE LET t == resolve(fs, <<>>, components(fs[p].target), links - 1)
                            IN  IF t.err # "" THEN t
                                ELSE resolve(fs, t.path, Tail(names), links - 1)
                  ELSE resolve(fs, p, Tail(names), links)

\* fs::canonicalize; relative paths start at the working directory, which
\* is the root of the modelled file system.
canonicalize(fs, path) == resolve(fs, <<>>, components(path), MAXSYMLINKS)

\* Path::exists, Path::is_file, Path::is_dir: the metadata of the node the
\* path resolves to; any error answers false.
exists(fs, path) == canonicalize(fs, path).err = ""
is_file(fs, path) ==
    LET c == canonicalize(fs, path) IN c.err = "" /\ fs[c.path].kind = "file"
is_dir(fs, path) ==
    LET c == canonicalize(fs, path) IN c.err = "" /\ fs[c.path].kind = "dir"

\* fs::read: the bytes of the file the path resolves to.
read(fs, path) == fs[canonicalize(fs, path).path].content

\* Path::starts_with: whole components of `base` are a prefix of `path`.
path_starts_with(path, base) ==
    /\ Len(base) <= Len(path)
    /\ SubSeq(path, 1, Len(base)) = base

\* The file systems of the model.  "./A" is the directory the mount of
\* ServerConfig serves, "/s" a file outside of it.
PlainDisk ==
    <<>> :> Dir @@ <<"s">> :> File("secret") @@ <<"A">> :> Dir
    @@ <<"A", "f">> :> File("abcd")
    @@ <<"A", "d">> :> Dir
    @@ <<"A", "d", "index.html">> :> File("<p></body>")
    @@ <<"A", "e">> :> Dir
    @@ <<"A", "e", "index.html">> :> Dir
    @@ <<"A", "l">> :> Link("/s")
    @@ <<"A", "k">> :> Link("/A/k")
    @@ <<"A", "n">> :> Link("/A/gone")
    @@ <<"A", "i">> :> Link("/A/f")

\* A directory inside the mount whose index.html is a symbolic link to a
\* file outside of the mount.
LinkedIndexDisk ==
    <<>> :> Dir @@ <<"s">> :> File("secret") @@ <<"A">> :> Dir
    @@ <<"A", "f">> :> File("")
    @@ <<"A", "d">> :> Dir
    @@ <<"A", "d", "index.html">> :> Link("/s")

\* The mounted directory is a symbolic link to another directory.
LinkedRootDisk ==
    <<>> :> Dir @@ <<"s">> :> File("secret") @@ <<"A">> :> Link("/B")
    @@ <<"B">> :> Dir
    @@ <<"B", "f">> :> File("abcdef")
    @@ <<"B", "d">> :> Dir

\* The mounted directory does not exist.
NoRootDisk == <<>> :> Dir @@ <<"s">> :> File("secret")

Disks == { PlainDisk, LinkedIndexDisk, LinkedRootDisk, NoRootDisk }

\* ------------------------------------------------------------------------
\* File backend: serving files and directories (serve/fs.rs)
\* ------------------------------------------------------------------------

\* str::ends_with(&str)
ends_with_str(s, suffix) ==
    /\ Len(suffix) <= Len(s)
    /\ SubSeq(s, Len(s) - Len(suffix) + 1, Len(s)) = suffix

\* mime_guess::from_path(path).first(): the MIME type of the extension of
\* the file name, None without a known extension.
mime_guess(path) ==
    IF ends_with_str(path, ".html") \/ ends_with_str(path, ".htm")
    THEN Some("text/html")
    ELSE IF ends_with_str(path, ".txt") THEN Some("text/plain") ELSE <<>>

\* u64::to_string
RECURSIVE to_string(_)
to_string(n) ==
    LET digit == SubSeq("0123456789", (n % 10) + 1, (n % 10) + 1)
    IN  IF n < 10 THEN digit ELSE to_string(n \div 10) \o digit

\* The value of a Range header: `empty` for an empty value, `prefix` whether
\* it starts with "bytes=", `specs` the comma-separated ranges, each with
\* the text before and after its '-': a number, Blank for no text, NaN for
\* text that is not a number.
Blank == -1
NaN == -2
RangeHeader(prefix, specs) == [empty |-> FALSE, prefix |-> prefix, specs |-> specs]
RangeSpec(start, end) == [start |-> start, end |-> end]

\* The outcomes of HttpRange::parse_single_range.
RangeOk(start, length) == [kind |-> "Some", start |-> start, length |-> length]
RangeNone == [kind |-> "None", start |-> 0, length |-> 0]
RangeErr == [kind |-> "Err", start |-> 0, length |-> 0]

\* HttpRange::parse_single_range(bytes, size)
parse_single_range(spec, size) ==
    IF spec.start = Blank
    THEN IF spec.end = Blank \/ spec.end = NaN THEN RangeErr
         ELSE LET length == IF spec.end > size THEN size ELSE spec.end
              IN  RangeOk(size - length, length)
    ELSE IF spec.start = NaN THEN RangeErr
    ELSE IF spec.start >= size THEN RangeNone
    ELSE IF spec.end = Blank THEN RangeOk(spec.start, size - spec.start)
    ELSE IF spec.end = NaN \/ spec.start > spec.end THEN RangeErr
    ELSE LET end == IF spec.end >= size THEN size - 1 ELSE spec.end
         IN  RangeOk(spec.start, end - spec.start + 1)

\* HttpRange::parse_bytes(header, size): Err(InvalidRange), Err(NoOverlap)
\* or Ok(the ranges that overlap the file).
parse_bytes(header, size) ==
    IF header.empty THEN [err |-> "", ranges |-> <<>>]
    ELSE IF ~header.prefix THEN [err |-> "InvalidRange", ranges |-> <<>>]
    ELSE LET parsed == [i \in 1..Len(header.specs) |->
                            parse_single_range(header.specs[i], size)]
             ranges == SelectSeq(parsed, LAMBDA r : r.kind = "Some")
             no_overlap == \E i \in 1..Len(parsed) : parsed[i].kind = "None"
         IN  IF \E i \in 1..Len(parsed) : parsed[i].kind = "Err"
             THEN [err |-> "InvalidRange", ranges |-> <<>>]
             ELSE IF no_overlap /\ ranges = <<>>
                  THEN [err |-> "NoOverlap", ranges |-> <<>>]
                  ELSE [err |-> "", ranges |-> ranges]

\* file.seek(SeekFrom::Start(start)) left out before file.take(length).
read_from_start(content, start, length) ==
    SubSeq(content, 1, IF length > Len(content) THEN Len(content) ELSE length)

\* file.seek(SeekFrom::Start(start)), then file.take(length) read to its end.
read_range(content, start, length) ==
    SubSeq(content, start + 1,
           IF start + length > Len(content) THEN Len(content) ELSE start + length)

\* A response with the content of the file or directory at `path`.
Served(resp, path) == [resp EXCEPT !.served = Some(path)]

\* serve_file: an HTML file is read and the script injected; any other file
\* is streamed, as a whole or the single range of the Range header.
serve_file(fs, path, req, config) ==
    LET mime == mime_guess(path)
    IN  IF mime # <<>> /\ starts_with(mime[1], "text/html")
        THEN LET html == into(read(fs, path), config)
             IN  Returned(Served(Response(req, 200,
                    [ServerHeaders EXCEPT !.content_type = Some("text/html"),
                                          !.content_length = Some(to_string(Len(html)))],
                    html), path))
        ELSE LET content == read(fs, path)
                 file_size == Len(content)
                 headers == [ServerHeaders EXCEPT !.accept_ranges = Some("bytes"),
                                                  !.content_type = mime]
             IN  IF req.range = <<>>
                 THEN Returned(Served(Response(req, 200,
                        [headers EXCEPT !.content_length = Some(to_string(file_size))],
                        content), path))
                 ELSE LET parsed == parse_bytes(req.range[1], file_size)
                      IN  IF parsed.err = "InvalidRange"
                          THEN Panicked("&str", "not yet implemented")
                          ELSE IF parsed.err = "NoOverlap"
                               THEN Returned(Response(req, 416, ServerHeaders, ""))
                          ELSE IF Len(parsed.ranges) # 1
                               THEN Returned(Response(req, 400, ServerHeaders,
                                        "multiple ranges in 'Range' header not supported"))
                          ELSE LET range == parsed.ranges[1]
                               IN  Returned(Served(Response(req, 206,
                                     [headers EXCEPT
                                        !.content_length = Some(to_string(range.length)),
                                        !.content_range = Some(
                                            "bytes " \o to_string(range.start) \o "-"
                                            \o to_string(range.start + range.length)
                                            \o "/" \o to_string(file_size))],
                                     read_range(content, range.start, range.length)),
                                     path))

\* str::find(char): the index of the first occurrence, 0 if there is none.
find(s, c) ==
    IF \E i \in 1..Len(s) : SubSeq(s, i, i) = c
    THEN CHOOSE i \in 1..Len(s) :
            /\ SubSeq(s, i, i) = c
            /\ \A j \in 1..(i - 1) : SubSeq(s, j, j) # c
    ELSE 0

\* The position of a character in the order of the ASCII bytes, for the
\* characters that the directive names of the model are written with.
byte(c) ==
    find(" '*-./0123456789:;ABCDEFGHIJKLMNOPQRSTUVWXYZ_abcdefghijklmnopqrstuvwxyz", c)

\* Ord for String: the byte-wise lexicographic order, by which a BTreeMap
\* with String keys iterates.
RECURSIVE str_lt(_, _)
str_lt(a, b) ==
    IF b = "" THEN FALSE
    ELSE IF a = "" THEN TRUE
    ELSE IF SubSeq(a, 1, 1) = SubSeq(b, 1, 1)
         THEN str_lt(SubSeq(a, 2, Len(a)), SubSeq(b, 2, Len(b)))
         ELSE byte(SubSeq(a, 1, 1)) < byte(SubSeq(b, 1, 1))

\* std::fs::read_dir: the entries of the directory the path leads to.
read_dir(fs, path) ==
    LET dir == canonicalize(fs, path).path
    IN  { p \in DOMAIN fs : Len(p) = Len(dir) + 1 /\ SubSeq(p, 1, Len(dir)) = dir }

\* The children of a folder as serve_dir collects them: a file with its
\* name, everything else with its name and `/`, none of them a mount.
RECURSIVE children(_, _)
children(fs, entries) ==
    IF entries = {} THEN <<>>
    ELSE LET entry == CHOOSE p \in entries : TRUE
             name == entry[Len(entry)]
         IN  <<IF fs[entry].kind = "file"
               THEN [name |-> name, is_mount |-> FALSE, folder |-> FALSE]
               ELSE [name |-> name \o "/", is_mount |-> FALSE, folder |-> TRUE]>>
                \o children(fs, entries \ {entry})

\* The mounts serve_dir adds: those whose fs_path exists and whose uri_path
\* without the prefix uri_path is not empty, under the name that ends
\* before the first `/` of the rest.
RECURSIVE mounts_below(_, _, _)
mounts_below(fs, uri_path, mounts) ==
    IF mounts = <<>> THEN <<>>
    ELSE LET sd == Head(mounts)
             rest == strip_prefix(sd.uri_path, uri_path)
             pos == IF rest = <<>> THEN 0 ELSE find(Str(rest[1]), "/")
             name == IF rest = <<>> THEN ""
                     ELSE IF pos = 0 THEN Str(rest[1])
                     ELSE Str(SubSeq(rest[1], 1, pos - 1))
         IN  (IF ~exists(fs, sd.fs_path) \/ rest = <<>> \/ rest = Some(<<>>) THEN <<>>
              ELSE IF is_dir(fs, sd.fs_path)
              THEN <<[name |-> name \o "/", is_mount |-> TRUE, folder |-> TRUE]>>
              ELSE <<[name |-> name, is_mount |-> TRUE, folder |-> FALSE]>>)
                \o mounts_below(fs, uri_path, Tail(mounts))

\* Ord for (String, bool): by the name, then false before true.
entry_lt(a, b) ==
    \/ str_lt(a.name, b.name)
    \/ a.name = b.name /\ ~a.is_mount /\ b.is_mount

\* A sort that leaves the entries as they were collected.
sort_skipped(entries) == entries

\* Vec::sort
RECURSIVE sort(_)
sort(entries) ==
    IF entries = <<>> THEN <<>>
    ELSE LET sorted == sort(Tail(entries))
             before == SelectSeq(sorted, LAMBDA e : entry_lt(e, Head(entries)))
         IN  before \o <<Head(entries)>> \o SubSeq(sorted, Len(before) + 1, Len(sorted))

\* serve_dir: the folders and then the files among the children of the
\* folder and the mounts below the path of the request, each sorted; the
\* body is the listing page with one line for each entry.
serve_dir(fs, path, req, config) ==
    LET listed == children(fs, read_dir(fs, path))
                    \o mounts_below(fs, req.path, config.mounts)
        folders == sort(SelectSeq(listed, LAMBDA e : e.folder))
        files == sort(SelectSeq(listed, LAMBDA e : ~e.folder))
        lines == folders \o files
    IN  Returned(Served(
            [entries |-> [i \in DOMAIN lines |->
                            [name |-> lines[i].name, is_mount |-> lines[i].is_mount]]]
            @@ Response(req, 200,
                [ServerHeaders EXCEPT !.content_type = Some("text/html; charset=utf-8")],
                "dir-listing.html"), path))

\* The canonicalize! macro of serve: the response or panic that ends serve
\* when fs::canonicalize fails, <<>> when it succeeds.
canonicalize_failure(req, path, c) ==
    IF c.err = "" THEN <<>>
    ELSE IF c.err = "NotFound" THEN Some(Returned(not_found(req)))
    ELSE Some(Panicked("String",
            "unhandled error: could not canonicalize path '" \o path \o "': " \o c.err))

\* serve with the index.html of a directory served only when it resolves
\* to a path below the root, like the requested path.
serve_checked_index(fs, req, subpath, fs_root, config) ==
    LET path == join(fs_root, subpath)
        canonical_req == canonicalize(fs, path)
        canonical_root == canonicalize(fs, fs_root)
        index == canonicalize(fs, join(path, "index.html"))
    IN  IF canonicalize_failure(req, path, canonical_req) # <<>>
        THEN canonicalize_failure(req, path, canonical_req)[1]
        ELSE IF canonicalize_failure(req, fs_root, canonical_root) # <<>>
        THEN canonicalize_failure(req, fs_root, canonical_root)[1]
        ELSE IF ~path_starts_with(canonical_req.path, canonical_root.path)
        THEN Returned(bad_request(req,
                "Bad request: requested file outside of served directory\n"))
        ELSE IF ~exists(fs, path) THEN Returned(not_found(req))
        ELSE IF is_file(fs, path) THEN serve_file(fs, path, req, config)
        ELSE IF is_file(fs, join(path, "index.html"))
                /\ path_starts_with(index.path, canonical_root.path)
        THEN serve_file(fs, join(path, "index.html"), req, config)
        ELSE serve_dir(fs, path, req, config)

\* serve: the response of the file backend for `subpath` below `fs_root`.
serve(fs, req, subpath, fs_root, config) ==
    LET path == join(fs_root, subpath)
        canonical_req == canonicalize(fs, path)
        canonical_root == canonicalize(fs, fs_root)
    IN  IF canonicalize_failure(req, path, canonical_req) # <<>>
        THEN canonicalize_failure(req, path, canonical_req)[1]
        ELSE IF canonicalize_failure(req, fs_root, canonical_root) # <<>>
        THEN canonicalize_failure(req, fs_root, canonical_root)[1]
        ELSE IF ~path_starts_with(canonical_req.path, canonical_root.path)
        THEN Returned(bad_request(req,
                "Bad request: requested file outside of served directory\n"))
        ELSE IF ~exists(fs, path) THEN Returned(not_found(req))
        ELSE IF is_file(fs, path) THEN serve_file(fs, path, req, config)
        ELSE IF is_file(fs, join(path, "index.html"))
        THEN serve_file(fs, join(path, "index.html"), req, config)
        ELSE serve_dir(fs, path, req, config)

\* The Range headers of the model.
Ranges ==
    { RangeHeader(TRUE, <<RangeSpec(1, 2)>>),
      RangeHeader(TRUE, <<RangeSpec(2, Blank)>>),
      RangeHeader(TRUE, <<RangeSpec(Blank, 3)>>),
      RangeHeader(TRUE, <<RangeSpec(0, 9)>>),
      RangeHeader(TRUE, <<RangeSpec(9, Blank)>>),
      RangeHeader(TRUE, <<RangeSpec(3, 1)>>),
      RangeHeader(TRUE, <<RangeSpec(NaN, Blank)>>),
      RangeHeader(FALSE, <<RangeSpec(1, 2)>>),
      RangeHeader(TRUE, <<RangeSpec(0, 0), RangeSpec(2, 3)>>),
      RangeHeader(TRUE, <<RangeSpec(0, 1), RangeSpec(9, Blank)>>),
      [empty |-> TRUE, prefix |-> FALSE, specs |-> <<>>] }

\* A GET request for `path`, with a Range header when `range` is Some.
Get(path, range) ==
    [method |-> "GET", path |-> Chars(path), upgrade |-> FALSE, valid |-> FALSE,
     body |-> EmptyBody, range |-> range]

\* Requests below the mount "/a" of ServerConfig.
FileRequests ==
    { Get(p, <<>>) :
        p \in { "/a", "/a/", "/a/f", "/a/f/x", "/a/d", "/a/d/index.html", "/a/e",
                "/a/l", "/a/k", "/a/n", "/a/i", "/a/x", "/a/../s", "/a/d/../f",
                "/a//s", "/a/d/" } }
    \cup { Get(p, Some(r)) : p \in { "/a/f", "/a/d" }, r \in Ranges }

\* handle for a request that matches a mount: fs::try_serve, inside
\* handle_internal_errors.
handle_file(req) ==
    /\ result = "Config"
    /\ senders.server
    /\ backend(req.path, builder) = "file"
    /\ LET m == try_serve(req.path, builder.mounts)[1]
       IN  response' = handle_internal_errors(req,
                serve(disk, req, Str(m.subpath), m.mount.fs_path, builder))
    /\ UNCHANGED <<published, sessions, cfgvars, proxyvars, disk, restvars>>

\* The files below the served directories change (a build writes them, a
\* user edits them) while the server runs.
disk_change(fs) ==
    /\ disk' = fs
    /\ disk' # disk
    /\ response' = NoResponse
    /\ UNCHANGED <<published, sessions, cfgvars, proxyvars, restvars>>

\* ------------------------------------------------------------------------
\* Proxy backend: the forwarded request and the response of the target
\* (serve/proxy.rs)
\* ------------------------------------------------------------------------

\* str::split(char): the parts between the occurrences, empty ones included.
RECURSIVE split(_, _)
split(s, c) ==
    IF find(s, c) = 0 THEN <<s>>
    ELSE <<SubSeq(s, 1, find(s, c) - 1)>> \o split(SubSeq(s, find(s, c) + 1, Len(s)), c)

\* char::is_whitespace for the characters of a header value.
is_whitespace(c) == c \in {" ", "\t"}

\* str::trim_start
RECURSIVE trim_start(_)
trim_start(s) ==
    IF Len(s) > 0 /\ is_whitespace(SubSeq(s, 1, 1))
    THEN trim_start(SubSeq(s, 2, Len(s))) ELSE s

\* str::trim_end
RECURSIVE trim_end(_)
trim_end(s) ==
    IF Len(s) > 0 /\ is_whitespace(SubSeq(s, Len(s), Len(s)))
    THEN trim_end(SubSeq(s, 1, Len(s) - 1)) ELSE s

\* str::trim
trim(s) == trim_end(trim_start(s))

\* str::split_once(';').map(|p| p.0).unwrap_or(part)
encoding_of(part) ==
    IF find(part, ";") = 0 THEN part ELSE SubSeq(part, 1, find(part, ";") - 1)

SUPPORTED_COMPRESSIONS == { "gzip", "br", "identity" }

\* The loop of filter_encodings that joins the kept parts with ", ".
RECURSIVE join_encodings(_, _)
join_encodings(parts, i) ==
    IF parts = <<>> THEN ""
    ELSE (IF i # 0 THEN ", " ELSE "") \o Head(parts) \o join_encodings(Tail(parts), i + 1)

\* filter_encodings that keeps every part.
filter_encodings_keep_all(orig) ==
    LET trimmed == [i \in DOMAIN split(orig, ",") |-> trim(split(orig, ",")[i])]
    IN  join_encodings(trimmed, 0)

\* filter_encodings
filter_encodings(orig) ==
    LET trimmed == [i \in DOMAIN split(orig, ",") |-> trim(split(orig, ",")[i])]
        allowed_values ==
            SelectSeq(trimmed, LAMBDA part : encoding_of(part) \in SUPPORTED_COMPRESSIONS)
    IN  join_encodings(allowed_values, 0)

\* A request that no mount matches: it is forwarded.  `host` and
\* `accept_encoding` are the headers of these names, <<>> when not set.
Forward(path, host, accept_encoding) ==
    [method |-> "GET", path |-> Chars(path), upgrade |-> FALSE, valid |-> FALSE,
     body |-> EmptyBody, range |-> <<>>, host |-> host,
     accept_encoding |-> accept_encoding]

\* "localhost:8000" of "http://localhost:8000": ProxyTarget::authority.
authority_of(target) == SubSeq(target, find(target, "/") + 2, Len(target))

\* adjust_request: the URI gets the scheme and the authority of the target,
\* a Host header is set to the authority, an Accept-Encoding header is
\* filtered and removed when nothing is left of it.
adjust_request(req, target) ==
    [ uri |-> target \o Str(req.path),
      host |-> IF req.host = <<>> THEN <<>> ELSE Some(authority_of(target)),
      accept_encoding |->
        IF req.accept_encoding = <<>> THEN <<>>
        ELSE IF filter_encodings(req.accept_encoding[1]) = "" THEN <<>>
             ELSE Some(filter_encodings(req.accept_encoding[1])) ]

\* u8::to_ascii_lowercase of one character.
lower_char(c) ==
    LET upper == "ABCDEFGHIJKLMNOPQRSTUVWXYZ"
        lower == "abcdefghijklmnopqrstuvwxyz"
    IN  IF find(upper, c) = 0 THEN c
        ELSE SubSeq(lower, find(upper, c), find(upper, c))

\* str::to_ascii_lowercase
RECURSIVE to_ascii_lowercase(_)
to_ascii_lowercase(s) ==
    IF s = "" THEN ""
    ELSE lower_char(SubSeq(s, 1, 1)) \o to_ascii_lowercase(SubSeq(s, 2, Len(s)))

\* The index of the first whitespace character of s, 0 if there is none.
find_whitespace(s) ==
    IF \E i \in 1..Len(s) : is_whitespace(SubSeq(s, i, i))
    THEN CHOOSE i \in 1..Len(s) :
            /\ is_whitespace(SubSeq(s, i, i))
            /\ \A j \in 1..(i - 1) : ~is_whitespace(SubSeq(s, j, j))
    ELSE 0

\* str::split_whitespace: the maximal runs of non-whitespace characters.
RECURSIVE split_whitespace(_)
split_whitespace(s) ==
    LET t == trim_start(s)
    IN  IF t = "" THEN <<>>
        ELSE IF find_whitespace(t) = 0 THEN <<t>>
             ELSE <<SubSeq(t, 1, find_whitespace(t) - 1)>>
                    \o split_whitespace(SubSeq(t, find_whitespace(t), Len(t)))

\* The keys of a BTreeMap in iteration order.
RECURSIVE keys(_)
keys(names) ==
    IF names = {} THEN <<>>
    ELSE LET least == CHOOSE n \in names : \A m \in names \ {n} : str_lt(n, m)
         IN  <<least>> \o keys(names \ {least})

\* Vec::contains
contains(v, x) == \E i \in DOMAIN v : v[i] = x

\* The parsing loop of rewrite_csp: the non-empty parts between the ';'.
csp_parts(header) == SelectSeq(split(header, ";"), LAMBDA part : part # "")

\* split.next().expect(..) of rewrite_csp panics for a part without any
\* token, that is a non-empty part of whitespace only.
csp_part_panics(part) == split_whitespace(trim(part)) = <<>>

\* The directive name of a part: its first token, lowercased.
csp_name(part) == to_ascii_lowercase(Head(split_whitespace(trim(part))))

\* The BTreeMap `directives` after the parsing loop: the values of the first
\* part with each name.
csp_directives(parts) ==
    [ name \in { csp_name(parts[i]) : i \in DOMAIN parts } |->
        LET first == CHOOSE i \in DOMAIN parts :
                        /\ csp_name(parts[i]) = name
                        /\ \A j \in 1..(i - 1) : csp_name(parts[j]) # name
        IN  Tail(split_whitespace(trim(parts[first]))) ]

\* directives.get(name).or_else(|| directives.get("default-src"))
\*     .map_or(true, |v| v.contains(&"'self'") || v.contains(&"*"))
self_allowed(directives, name) ==
    LET v == IF name \in DOMAIN directives THEN Some(directives[name])
             ELSE IF "default-src" \in DOMAIN directives
                  THEN Some(directives["default-src"])
                  ELSE <<>>
    IN  v = <<>> \/ contains(v[1], "'self'") \/ contains(v[1], "*")

\* directives.entry(name).or_default(), retain(!= "'none'"), push("'self'")
add_self(directives, name) ==
    LET sources == IF name \in DOMAIN directives THEN directives[name] ELSE <<>>
    IN  (name :> Append(SelectSeq(sources, LAMBDA src : src # "'none'"), "'self'"))
            @@ directives

\* values.iter().for_each(|v| write!(out, " {v}"))
RECURSIVE write_values(_)
write_values(values) ==
    IF values = <<>> THEN ""
    ELSE " " \o Head(values) \o write_values(Tail(values))

\* The serialization loop of rewrite_csp over the directives in key order.
RECURSIVE write_directives(_, _)
write_directives(directives, names) ==
    IF names = <<>> THEN ""
    ELSE Head(names) \o write_values(directives[Head(names)]) \o "; "
            \o write_directives(directives, Tail(names))

\* rewrite_csp: the new value of the header, or the panic of the expect.
rewrite_csp(header) ==
    LET parts == csp_parts(header)
    IN  IF \E i \in DOMAIN parts : csp_part_panics(parts[i])
        THEN [panicked |-> TRUE, value |-> header]
        ELSE LET directives == csp_directives(parts)
                 scripts_from_self_allowed == self_allowed(directives, "script-src")
                 connect_to_self_allowed == self_allowed(directives, "connect-src")
                 with_script == IF ~scripts_from_self_allowed
                                THEN add_self(directives, "script-src")
                                ELSE directives
                 with_connect == IF ~connect_to_self_allowed
                                 THEN add_self(with_script, "connect-src")
                                 ELSE with_script
             IN  IF scripts_from_self_allowed /\ connect_to_self_allowed
                 THEN [panicked |-> FALSE, value |-> header]
                 ELSE [panicked |-> FALSE,
                       value |-> write_directives(with_connect, keys(DOMAIN with_connect))]

\* The bytes of a string in reverse order.
RECURSIVE reversed(_)
reversed(s) ==
    IF s = "" THEN "" ELSE reversed(SubSeq(s, 2, Len(s))) \o SubSeq(s, 1, 1)

\* A compressed stream: the magic of the format, the compression level and
\* the deflated bytes, for which the reversed bytes stand.
compress(magic, level, bytes) == magic \o level \o ":" \o reversed(bytes)

\* The decoder of a format: the bytes, or an error for a stream that is not
\* of this format.
decompress(magic, stream) ==
    IF starts_with(stream, magic) /\ SubSeq(stream, Len(magic) + 2, Len(magic) + 2) = ":"
    THEN [ok |-> TRUE, bytes |-> reversed(SubSeq(stream, Len(magic) + 3, Len(stream)))]
    ELSE [ok |-> FALSE, bytes |-> ""]

\* flate2::read::GzEncoder with Compression::best() and GzDecoder
GzEncoder(bytes) == compress("gz", "9", bytes)
GzDecoder(stream) == decompress("gz", stream)

\* brotli::BrotliCompress with the default parameters and BrotliDecompress
BrotliCompress(bytes) == compress("br", "b", bytes)
BrotliDecompress(stream) == decompress("br", stream)

\* The byte 0, for which a character stands that no body of the model uses
\* otherwise.
NUL == "\f"

\* infer::text::is_html: after leading whitespace the bytes start, in any
\* case, with one of the tags an HTML document starts with, followed by a
\* space or '>'.
is_html(bytes) ==
    LET start == to_ascii_lowercase(trim_start(bytes))
    IN  \E tag \in { "<!doctype html", "<html", "<head", "<body", "<p", "<div", "<!--" } :
            \E last \in { " ", ">" } : starts_with(start, tag \o last)

\* ------------------------------------------------------------------------
\* ProxyTarget::from_str (config.rs) and the http::Uri it parses
\* ------------------------------------------------------------------------

\* The characters a URI may hold (URI_CHARS of http::uri); everything else,
\* whitespace included, is an invalid character.
is_uri_char(c) ==
    find("abcdefghijklmnopqrstuvwxyzABCDEFGHIJKLMNOPQRSTUVWXYZ0123456789-._~!$&'()*+,;=:@/?#[]", c) # 0

\* The characters of a scheme (SCHEME_CHARS of http::uri).
is_scheme_char(c) ==
    find("abcdefghijklmnopqrstuvwxyzABCDEFGHIJKLMNOPQRSTUVWXYZ0123456789+-.", c) # 0

\* The index of the first character of s that is a ':' or no scheme
\* character, 0 if there is none.
scheme_stop(s) ==
    IF \E i \in 1..Len(s) : ~is_scheme_char(SubSeq(s, i, i))
    THEN CHOOSE i \in 1..Len(s) :
            /\ ~is_scheme_char(SubSeq(s, i, i))
            /\ \A j \in 1..(i - 1) : is_scheme_char(SubSeq(s, j, j))
    ELSE 0

\* Scheme2::parse: "http://" and "https://" in any case, or scheme
\* characters followed by "://"; `len` is what is cut off the string.
scheme_parse(s) ==
    IF Len(s) >= 7 /\ to_ascii_lowercase(SubSeq(s, 1, 7)) = "http://"
    THEN [scheme |-> "http", len |-> 7]
    ELSE IF Len(s) >= 8 /\ to_ascii_lowercase(SubSeq(s, 1, 8)) = "https://"
    THEN [scheme |-> "https", len |-> 8]
    ELSE IF /\ Len(s) > 3
            /\ scheme_stop(s) # 0
            /\ scheme_stop(s) + 2 <= Len(s)
            /\ SubSeq(s, scheme_stop(s), scheme_stop(s) + 2) = "://"
    THEN [scheme |-> SubSeq(s, 1, scheme_stop(s) - 1), len |-> scheme_stop(s) + 2]
    ELSE [scheme |-> "", len |-> 0]

\* The index of the first '/', '?' or '#' of s, Len(s) + 1 if there is none.
authority_stop(s) ==
    CHOOSE k \in 1..(Len(s) + 1) :
        /\ k = Len(s) + 1 \/ SubSeq(s, k, k) \in {"/", "?", "#"}
        /\ \A j \in 1..(k - 1) : SubSeq(s, j, j) \notin {"/", "?", "#"}

\* The number of ':' of s after its last '@'.
RECURSIVE colon_cnt(_)
colon_cnt(s) ==
    IF s = "" \/ SubSeq(s, Len(s), Len(s)) = "@" THEN 0
    ELSE (IF SubSeq(s, Len(s), Len(s)) = ":" THEN 1 ELSE 0)
            + colon_cnt(SubSeq(s, 1, Len(s) - 1))

\* Authority::parse: where the authority ends, or an error for an invalid
\* character, more than one ':' after the user information, or nothing
\* after an '@'.
authority_parse(s) ==
    LET end == authority_stop(s) - 1
        auth == SubSeq(s, 1, end)
    IN  IF \E i \in 1..end : ~is_uri_char(SubSeq(s, i, i))
        THEN [err |-> TRUE, end |-> 0]
        ELSE IF colon_cnt(auth) > 1 THEN [err |-> TRUE, end |-> 0]
        ELSE IF end > 0 /\ SubSeq(s, end, end) = "@" THEN [err |-> TRUE, end |-> 0]
        ELSE [err |-> FALSE, end |-> end]

\* PathAndQuery::from_shared: an error for an invalid character; a fragment
\* is cut off.
path_and_query_parse(s) ==
    LET cut == IF find(s, "#") = 0 THEN s ELSE SubSeq(s, 1, find(s, "#") - 1)
    IN  IF \E i \in 1..Len(cut) : ~is_uri_char(SubSeq(cut, i, i))
        THEN [err |-> TRUE, data |-> ""]
        ELSE [err |-> FALSE, data |-> cut]

InvalidUri == [err |-> TRUE]

UriParts(scheme, authority, path_and_query) ==
    [err |-> FALSE, scheme |-> scheme, authority |-> authority,
     path_and_query |-> path_and_query]

\* Uri::from_str followed by Uri::into_parts. A part that is absent is
\* <<>>; the path is present for a URI with a scheme, where empty stands
\* for "/".
uri_parts(s) ==
    IF s = "" THEN InvalidUri
    ELSE IF s = "/" \/ s = "*" THEN UriParts(<<>>, <<>>, Some(s))
    ELSE IF SubSeq(s, 1, 1) = "/"
    THEN IF path_and_query_parse(s).err THEN InvalidUri
         ELSE UriParts(<<>>, <<>>, Some(path_and_query_parse(s).data))
    ELSE LET scheme == scheme_parse(s)
             rest == SubSeq(s, scheme.len + 1, Len(s))
             authority == authority_parse(rest)
             path == path_and_query_parse(SubSeq(rest, authority.end + 1, Len(rest)))
         IN  IF authority.err THEN InvalidUri
             ELSE IF scheme.len = 0
             THEN IF authority.end # Len(rest) THEN InvalidUri
                  ELSE UriParts(<<>>, Some(rest), <<>>)
             ELSE IF authority.end = 0 \/ path.err THEN InvalidUri
             ELSE UriParts(Some(scheme.scheme), Some(SubSeq(rest, 1, authority.end)),
                           Some(IF path.data = "" THEN "/" ELSE path.data))

\* Authority::host: what stands after the user information and before the
\* port.
host(authority) ==
    LET at == split(authority, "@")
    IN  split(at[Len(at)], ":")[1]

\* A decimal number of an IPv4 address: one to three digits, no leading
\* zero, at most 255; -1 for anything else.
octet(s) ==
    LET digit(i) == find("0123456789", SubSeq(s, i, i)) - 1
    IN  IF Len(s) \notin 1..3 THEN -1
        ELSE IF \E i \in 1..Len(s) : digit(i) < 0 THEN -1
        ELSE IF Len(s) > 1 /\ digit(1) = 0 THEN -1
        ELSE LET n == IF Len(s) = 1 THEN digit(1)
                      ELSE IF Len(s) = 2 THEN 10 * digit(1) + digit(2)
                      ELSE 100 * digit(1) + 10 * digit(2) + digit(3)
             IN  IF n > 255 THEN -1 ELSE n

\* host.parse::<IpAddr>().map_or(false, |ip| ip.is_loopback()), for the
\* dotted notation of IPv4.
is_loopback(h) ==
    LET parts == split(h, ".")
    IN  /\ Len(parts) = 4
        /\ \A i \in 1..4 : octet(parts[i]) >= 0
        /\ octet(parts[1]) = 127

ParsedTarget(scheme, authority) ==
    [ok |-> TRUE, scheme |-> scheme, authority |-> authority]

ProxyTargetParseError(kind) == [ok |-> FALSE, err |-> kind]

\* ProxyTarget::from_str
from_str(src) ==
    LET parts == uri_parts(src)
        has_real_path == parts.path_and_query # <<>> /\ parts.path_and_query[1] # "/"
    IN  IF parts.err THEN ProxyTargetParseError("InvalidUri")
        ELSE IF has_real_path THEN ProxyTargetParseError("HasPath")
        ELSE IF parts.authority = <<>> THEN ProxyTargetParseError("MissingAuthority")
        ELSE IF parts.scheme # <<>>
        THEN ParsedTarget(parts.scheme[1], parts.authority[1])
        ELSE IF host(parts.authority[1]) = "localhost" \/ is_loopback(host(parts.authority[1]))
        THEN ParsedTarget("http", parts.authority[1])
        ELSE ProxyTargetParseError("MissingScheme")

\* No string has been given to from_str.
NotParsed == [parsed |-> FALSE]

\* A call of ProxyTarget::from_str, as for the target given on the command
\* line: what was given and what came back.
parse_target(input) ==
    /\ proxy_target = NotParsed
    /\ proxy_target' = [parsed |-> TRUE, input |-> input, result |-> from_str(input.src)]
    /\ UNCHANGED <<builder, result, routed, published, sessions, response,
                   is_polling_target, target_up, requests, pollers, disk,
                   forwarded, senders, waiter, sockets, watcher>>

\* The caller is done with the result.
parse_target_done ==
    /\ proxy_target # NotParsed
    /\ proxy_target' = NotParsed
    /\ UNCHANGED <<builder, result, routed, published, sessions, response,
                   is_polling_target, target_up, requests, pollers, disk,
                   forwarded, senders, waiter, sockets, watcher>>

\* The strings given to from_str: written from a scheme, user information,
\* a host, a port and what follows the authority, and some strings that are
\* no such composition.
TargetSchemes == { "", "http://", "https://", "HTTP://", "ftp://" }

TargetUsers == { "", "me@" }

TargetHosts ==
    { "localhost", "127.0.0.1", "127.8.0.255", "127.0.0.256", "127.1", "10.0.0.1",
      "github.com", "local host", "" }

TargetPorts == { "", ":8000", ":80:90" }

TargetTails == { "", "/", "/foo", "//" }

TargetInputs ==
    { [src |-> scheme \o user \o h \o port \o tail, scheme |-> scheme,
       authority |-> user \o h \o port, host |-> h, tail |-> tail] :
        scheme \in TargetSchemes, user \in TargetUsers, h \in TargetHosts,
        port \in TargetPorts, tail \in TargetTails }
    \cup { [src |-> "*", scheme |-> "", authority |-> "", host |-> "", tail |-> "*"],
           [src |-> "a", scheme |-> "", authority |-> "a", host |-> "a", tail |-> ""],
           [src |-> "localhost#top", scheme |-> "", authority |-> "localhost",
            host |-> "localhost", tail |-> "#top"] }

\* ------------------------------------------------------------------------
\* adjust_response (serve/proxy.rs)
\* ------------------------------------------------------------------------

\* A byte that is part of no UTF-8 encoding, such as 0xFF.
BYTE_FF == "\r"

\* std::str::from_utf8 succeeds.
from_utf8_ok(bytes) == find(bytes, BYTE_FF) = 0

\* Uri::from_parts (http): a URI with a scheme needs an authority and a
\* path, one without a scheme has not both.
from_parts_ok(parts) ==
    IF parts.scheme # <<>>
    THEN parts.authority # <<>> /\ parts.path_and_query # <<>>
    ELSE ~(parts.authority # <<>> /\ parts.path_and_query # <<>>)

\* Uri::to_string (http): the scheme with ://, the authority, the path, `/`
\* for an empty one, and the query after its `?`.
uri_to_string(parts) ==
    LET pq == IF parts.path_and_query = <<>> THEN "" ELSE parts.path_and_query[1]
        mark == find(pq, "?")
        shown == IF mark = 0 THEN pq ELSE SubSeq(pq, 1, mark - 1)
    IN  (IF parts.scheme = <<>> THEN "" ELSE parts.scheme[1] \o "://")
        \o (IF parts.authority = <<>> THEN "" ELSE parts.authority[1])
        \o (IF parts.path_and_query = <<>> THEN ""
            ELSE (IF shown = "" THEN "/" ELSE shown)
                    \o (IF mark = 0 THEN "" ELSE SubSeq(pq, mark, Len(pq))))

\* A rewrite_location that rewrites whatever the authority of the redirect.
rewrite_location_any(header, target, config) ==
    IF ~from_utf8_ok(header) \/ uri_parts(header).err
    THEN [panicked |-> FALSE, value |-> header]
    ELSE LET uri == uri_parts(header)
             new == [uri EXCEPT !.scheme = Some("http"),
                                !.authority = Some(config.bind_addr)]
         IN  IF uri.authority = <<>> THEN [panicked |-> FALSE, value |-> header]
             ELSE IF ~from_parts_ok(new) THEN [panicked |-> TRUE, value |-> header]
             ELSE [panicked |-> FALSE, value |-> uri_to_string(new)]

\* rewrite_location: a redirect to the proxy target itself gets the scheme
\* http and the bind address of the server as authority.
rewrite_location(header, target, config) ==
    IF ~from_utf8_ok(header) \/ uri_parts(header).err
    THEN [panicked |-> FALSE, value |-> header]
    ELSE LET uri == uri_parts(header)
             new == [uri EXCEPT !.scheme = Some("http"),
                                !.authority = Some(config.bind_addr)]
         IN  IF \/ uri.authority = <<>>
                \/ to_ascii_lowercase(uri.authority[1])
                        # to_ascii_lowercase(authority_of(target))
             THEN [panicked |-> FALSE, value |-> header]
             ELSE IF ~from_parts_ok(new) THEN [panicked |-> TRUE, value |-> header]
             ELSE [panicked |-> FALSE, value |-> uri_to_string(new)]

\* The headers of a response of the proxy target that the model follows.
TargetHeaders(content_type, content_encoding, content_length, csp) ==
    [server |-> <<>>, content_type |-> content_type, content_length |-> content_length,
     content_range |-> <<>>, accept_ranges |-> <<>>,
     content_encoding |-> content_encoding, content_security_policy |-> csp]

\* A response of the proxy target; `error` says that the download of the
\* body fails.
TargetResponse(status, headers, body) ==
    [status |-> status, headers |-> headers, body |-> body, error |-> FALSE]

\* A response of the proxy target whose body arrives in the given chunks.
ChunkedResponse(status, headers, chunks, body) ==
    [status |-> status, headers |-> headers, body |-> body, error |-> FALSE,
     chunks |-> chunks]

\* download_body_error: gateway_error with an error that is no timeout.
download_body_error(req) ==
    Response(req, 502, [ServerHeaders EXCEPT !.content_type = <<"text/html">>],
             "proxy-error.html")

\* A match in which bytes that look like HTML decide whatever the
\* Content-Type header says.
adjust_body_sniff_wins(headers, body_start) ==
    \/ find(body_start, NUL) = 0 /\ is_html(body_start)
    \/ /\ headers.content_type # <<>>
       /\ \/ starts_with(headers.content_type[1], "text/html")
          \/ starts_with(headers.content_type[1], "application/xhtml+xml")

\* The match of adjust_response on the Content-Type header and the sniffed
\* bytes: whether the body is treated as HTML.
adjust_body(headers, body_start) ==
    LET html_content_type ==
            IF headers.content_type = <<>> THEN <<>>
            ELSE Some(\/ starts_with(headers.content_type[1], "text/html")
                      \/ starts_with(headers.content_type[1], "application/xhtml+xml"))
        looks_like_html == find(body_start, NUL) = 0 /\ is_html(body_start)
    IN  IF html_content_type = <<>> THEN looks_like_html
        ELSE html_content_type[1]

\* The match of adjust_response on the Content-Encoding header: the new
\* body, or the panic of an expect on a stream that does not decode.
\* The number of body bytes after which adjust_response stops reading
\* chunks for sniffing: 512 in the code, fewer here to keep the bodies that
\* reach it small.
SNIFF_LEN == 16

\* n bytes that are no markup.
RECURSIVE Pad(_)
Pad(n) == IF n = 0 THEN "" ELSE "a" \o Pad(n - 1)

\* The bytes of a sequence of chunks.
RECURSIVE concat(_)
concat(chunks) ==
    IF chunks = <<>> THEN "" ELSE Head(chunks) \o concat(Tail(chunks))

\* The number of chunks the sniffing loop of adjust_response reads when
\* body_start holds len bytes: it goes on while the body has not ended and
\* fewer than SNIFF_LEN bytes are buffered.
RECURSIVE data_polls(_, _)
data_polls(chunks, len) ==
    IF chunks = <<>> \/ len >= SNIFF_LEN THEN 0
    ELSE 1 + data_polls(Tail(chunks), len + Len(Head(chunks)))

\* The chunks in which the target sends its body: those of the response,
\* or its body as one chunk, or none for an empty body.
chunks_of(target_response) ==
    IF "chunks" \in DOMAIN target_response THEN target_response.chunks
    ELSE IF target_response.body = "" THEN <<>>
    ELSE <<target_response.body>>

\* body_start after the sniffing loop.
body_start_of(chunks) == concat(SubSeq(chunks, 1, data_polls(chunks, 0)))

\* A recombination that hands on SNIFF_LEN bytes of body_start at most.
recombined_body_cut(chunks) ==
    LET polls == data_polls(chunks, 0)
        start == body_start_of(chunks)
    IN  <<SubSeq(start, 1, IF Len(start) < SNIFF_LEN THEN Len(start) ELSE SNIFF_LEN)>>
            \o SubSeq(chunks, polls + 1, Len(chunks))

\* recombined_body: a stream of body_start as one chunk, chained with the
\* rest of the body.
recombined_body(chunks) ==
    <<body_start_of(chunks)>>
        \o SubSeq(chunks, data_polls(chunks, 0) + 1, Len(chunks))

new_body(headers, body, config) ==
    IF headers.content_encoding = <<>>
    THEN [panicked |-> FALSE, text |-> "", bytes |-> into(body, config)]
    ELSE IF headers.content_encoding[1] = "gzip"
    THEN IF GzDecoder(body).ok
         THEN [panicked |-> FALSE, text |-> "",
               bytes |-> GzEncoder(into(GzDecoder(body).bytes, config))]
         ELSE [panicked |-> TRUE, bytes |-> "",
               text |-> "unexpected error while decompressing GZIP: invalid gzip header"]
    ELSE IF headers.content_encoding[1] = "br"
    THEN IF BrotliDecompress(body).ok
         THEN [panicked |-> FALSE, text |-> "",
               bytes |-> BrotliCompress(into(BrotliDecompress(body).bytes, config))]
         ELSE [panicked |-> TRUE, bytes |-> "",
               text |-> "unexpected error while decompressing Brotli: Invalid Data"]
    ELSE [panicked |-> FALSE, text |-> "", bytes |-> body]

\* The headers sent with a new body when the Content-Length of the target
\* is handed on as it came.
set_content_length_stale(headers, bytes) == headers

\* adjust_response, if let Some(content_len): a Content-Length header that
\* is there gets the length of the new body.
set_content_length(headers, bytes) ==
    [headers EXCEPT
        !.content_length = IF @ = <<>> THEN <<>> ELSE Some(to_string(Len(bytes)))]

\* adjust_response after the Location header was rewritten: body_start is
\* sniffed from the first chunks of the body; a body that is not treated as
\* HTML is handed on as the recombined stream, one that is treated as HTML
\* is downloaded to its end.
adjust_parts(target_response, headers, req, config) ==
    LET chunks == chunks_of(target_response)
        body_start == body_start_of(chunks)
        body == body_start \o concat(SubSeq(chunks, data_polls(chunks, 0) + 1, Len(chunks)))
        new == new_body(headers, body, config)
        csp == [i \in DOMAIN headers.content_security_policy |->
                    rewrite_csp(headers.content_security_policy[i])]
    IN  IF target_response.error THEN Returned(download_body_error(req))
        ELSE IF ~adjust_body(headers, body_start)
        THEN Returned(Response(req, target_response.status, headers,
                               concat(recombined_body(chunks)))
                        @@ [stream |-> recombined_body(chunks)])
        ELSE IF new.panicked THEN Panicked("String", new.text)
        ELSE IF \E i \in DOMAIN csp : csp[i].panicked
        THEN Panicked("String", "empty split iterator for non-empty string")
        ELSE Returned(Response(req, target_response.status,
                [set_content_length(headers, new.bytes) EXCEPT
                    !.content_security_policy = [i \in DOMAIN csp |-> csp[i].value]],
                new.bytes))

\* adjust_response: a Location header is rewritten first, and the expect on
\* Uri::from_parts panics before anything of the body is read.
adjust_response(target_response, req, config) ==
    IF "location" \notin DOMAIN target_response.headers
    THEN adjust_parts(target_response, target_response.headers, req, config)
    ELSE LET location == rewrite_location(target_response.headers.location,
                                          config.proxy, config)
         IN  IF location.panicked
             THEN Panicked("String", "bug: failed to build URI: PathAndQueryMissing")
             ELSE adjust_parts(target_response,
                               [target_response.headers EXCEPT !.location = location.value],
                               req, config)

\* No request was forwarded yet.
NotForwarded ==
    [request |-> [uri |-> "", host |-> <<>>, accept_encoding |-> <<>>],
     response |-> TargetResponse(0, TargetHeaders(<<>>, <<>>, <<>>, <<>>), "")]

\* handle for a request that reaches the proxy: forward, whose
\* client.request(req) returns the response of the target, inside
\* handle_internal_errors.  The requests come over one connection, on which
\* hyper reads a request once the response to the one before is written.
forward_ok(req, target_response) ==
    /\ forwarded = NotForwarded
    /\ senders.server
    /\ result = "Config"
    /\ backend(req.path, builder) = "proxy"
    /\ target_up
    /\ forwarded' = [request |-> adjust_request(req, builder.proxy),
                     response |-> target_response]
    /\ response' = handle_internal_errors(req,
                        adjust_response(target_response, req, builder))
    /\ UNCHANGED <<published, sessions, cfgvars, proxyvars, disk,
                   senders, proxy_target, waiter, sockets, watcher>>

\* The connection has written the response of the forwarded request.
forward_done ==
    /\ forwarded # NotForwarded
    /\ forwarded' = NotForwarded
    /\ response' = NoResponse
    /\ UNCHANGED <<published, sessions, cfgvars, proxyvars, disk,
                   senders, proxy_target, waiter, sockets, watcher>>

\* The bodies of the model: up to MaxTokens pieces of markup, so that tags
\* and comment delimiters meet and overlap in every way.
MaxTokens == 3
Tokens == { "</body>", "<!--", "-->", "<!-", "->", ">", "a" }
RECURSIVE Markup(_)
Markup(n) ==
    IF n = 0 THEN { "" }
    ELSE Markup(n - 1) \cup { m \o t : m \in Markup(n - 1), t \in Tokens }
HtmlBodies == Markup(MaxTokens)

\* The entries of the Accept-Encoding headers of the model, up to MaxEntries
\* in a header, and the separators between them.
MaxEntries == 3
Entries ==
    { [name |-> "gzip", params |-> ""], [name |-> "br", params |-> ";q=1.0"],
      [name |-> "identity", params |-> ""], [name |-> "deflate", params |-> ";q=0.5"],
      [name |-> "*", params |-> ";q=0.1"] }
Separators == { ",", " ,  " }
EntrySeqs == UNION { [1..n -> Entries] : n \in 0..MaxEntries }

\* The header value with the given entries and separator.
RECURSIVE Render(_, _)
Render(entries, sep) ==
    IF entries = <<>> THEN ""
    ELSE IF Len(entries) = 1 THEN entries[1].name \o entries[1].params
    ELSE entries[1].name \o entries[1].params \o sep \o Render(Tail(entries), sep)

\* Every header of the model with the entries it was written from.
AcceptEncodings ==
    { [header |-> Render(es, sep), entries |-> es] : es \in EntrySeqs, sep \in Separators }

\* Content-Security-Policy header values of the model.
CspHeaders ==
    { "default-src *", "default-src 'self'", "default-src 'self' https://google.com",
      "default-src 'none' https://google.com; script-src 'self'; connect-src *",
      "default-src 'none'", "default-src 'none'; script-src http:",
      "default-src 'self'; connect-src 'none'", "default-src 'self'; script-src https:",
      "img-src x;Script-Src 'none' y; script-src *", "", "img-src x;",
      "default-src 'none'; ", "connect-src 'self'; default-src 'none'; script-src 'self'; ",
      "connect-src 'self'; default-src 'self'; ",
      "img-src x; ", "upgrade-insecure-requests" }

\* A request without the headers that adjust_request looks at, and a plain
\* HTML response.
PlainForward == Forward("/x", <<>>, <<>>)
PlainHtml ==
    TargetResponse(200, TargetHeaders(Some("text/html"), <<>>, <<>>, <<>>), "<p></body>")

\* The documents that the target sends in every encoding.
Documents == { "", "<p></body>", "<html><!--</body>--></body>a" }

\* The forwarded requests of the model.
ForwardRequests ==
    { Forward("/x", host_header, Some(ae.header)) :
        host_header \in { <<>>, Some("penguin.test") }, ae \in AcceptEncodings }

\* The responses of the target of the model: HTML bodies, documents in
\* every encoding, policies, other content, a stream that does not decode
\* and a body whose download fails.
TargetResponses ==
    { TargetResponse(200, TargetHeaders(Some("text/html"), <<>>, <<>>, <<>>), body) :
        body \in HtmlBodies }
    \cup
    { TargetResponse(200,
            TargetHeaders(Some("text/html; charset=utf-8"), Some("gzip"),
                          Some(to_string(Len(compress("gz", level, doc)))), <<>>),
            compress("gz", level, doc)) : doc \in Documents, level \in { "6", "9" } }
    \cup
    { TargetResponse(200, TargetHeaders(Some("text/html"), Some("br"), <<>>, <<>>),
            compress("br", "5", doc)) : doc \in Documents }
    \cup
    { TargetResponse(200,
            TargetHeaders(Some("text/html"), encoding, Some(to_string(Len(doc))), <<>>),
            doc) : doc \in Documents, encoding \in { <<>>, Some("identity"), Some("deflate") } }
    \cup
    { TargetResponse(200, TargetHeaders(content_type, <<>>, <<>>, <<>>), body) :
        content_type \in { <<>>, Some("text/plain") },
        body \in { "<p></body>", "a</body>" } }
    \cup
    { TargetResponse(200, TargetHeaders(Some("text/html"), <<>>, <<>>, csp), "<p></body>") :
        csp \in { <<h>> : h \in CspHeaders }
                    \cup { <<"default-src 'none'", "script-src 'self'">> } }
    \cup
    { TargetResponse(200, TargetHeaders(Some("text/html"), Some("gzip"), <<>>, <<>>), "<p>"),
      [TargetResponse(200, TargetHeaders(Some("text/html"), <<>>, <<>>, <<>>), "<p>")
            EXCEPT !.error = TRUE] }

\* ------------------------------------------------------------------------
\* The Senders of the broadcast channel (lib.rs, serve/mod.rs,
\* serve/proxy.rs)
\* ------------------------------------------------------------------------

\* Controller clones that the application holds at most.
MaxControllers == 2

\* Server::build: the Server future owns the Sender that serve::run moved
\* into its service, the application holds one Controller.
AllSenders == [server |-> TRUE, controllers |-> 1]

\* The Sender clones held outside of Server and Controller: `actions` of a
\* forward between the transport error and the move into start_polling's
\* task, and `actions` of a poller task until the task ends.
TaskSenders ==
    Cardinality({ r \in 1..MaxRequests : requests[r].pc \in { "failed", "spawning" } })
        + Cardinality({ p \in 1..MaxPollers : pollers[p] \in { "sleep", "connected", "sent" } })

\* Every Sender of the channel has been dropped.
AllSendersDropped ==
    /\ ~senders.server
    /\ senders.controllers = 0
    /\ TaskSenders = 0

\* The application drops the Server future.
server_drop ==
    /\ senders.server
    /\ senders' = [senders EXCEPT !.server = FALSE]
    /\ response' = NoResponse
    /\ UNCHANGED <<published, sessions, cfgvars, proxyvars, disk,
                   forwarded, proxy_target, waiter, sockets, watcher>>

\* Controller::clone
controller_clone ==
    /\ senders.controllers \in 1..(MaxControllers - 1)
    /\ senders' = [senders EXCEPT !.controllers = @ + 1]
    /\ response' = NoResponse
    /\ UNCHANGED <<published, sessions, cfgvars, proxyvars, disk,
                   forwarded, proxy_target, waiter, sockets, watcher>>

\* The application drops a Controller.
controller_drop ==
    /\ senders.controllers > 0
    /\ senders' = [senders EXCEPT !.controllers = @ - 1]
    /\ response' = NoResponse
    /\ UNCHANGED <<published, sessions, cfgvars, proxyvars, disk,
                   forwarded, proxy_target, waiter, sockets, watcher>>

\* handle_connection: the actions.recv() branch of the select! when recv
\* yields Err(RecvError::Closed), which it does once every Sender is dropped
\* and the receiver has seen every value: the loop breaks.
session_closed(s) ==
    /\ sessions[s].pc = "loop"
    /\ recv(sessions[s], published).kind = "Pending"
    /\ AllSendersDropped
    /\ sessions' = [sessions EXCEPT ![s] = Ended]
    /\ response' = NoResponse
    /\ UNCHANGED <<published, cfgvars, proxyvars, disk, restvars>>

\* ------------------------------------------------------------------------
\* wait_for_proxy (util.rs)
\* ------------------------------------------------------------------------

\* poll_period, in units of the clock.
PollPeriod == 2

\* The longest a connection attempt takes, and the number of attempts
\* followed.
MaxConnect == 1
MaxAttempts == 4

\* wait_for_proxy has not been called.
NotWaiting ==
    [pc |-> "idle", now |-> 0, start |-> 0, deadline |-> 0, attempts |-> <<>>]

\* The call of wait_for_proxy up to the loop: tokio::time::interval, whose
\* first tick is due at once and every further tick one period after the
\* tick before.
wait_for_proxy ==
    /\ waiter.pc = "idle"
    /\ waiter' = [waiter EXCEPT !.pc = "connect", !.start = waiter.now,
                                !.deadline = waiter.now]
    /\ UNCHANGED <<builder, result, routed, published, sessions, response,
                   is_polling_target, target_up, requests, pollers, disk,
                   forwarded, senders, proxy_target, sockets, watcher>>

\* TcpStream::connect(..).await: an attempt that begins now, takes d and
\* succeeds iff the target is reachable; success leaves the loop.
wait_for_proxy_connect(d) ==
    /\ waiter.pc = "connect"
    /\ Len(waiter.attempts) < MaxAttempts
    /\ waiter' = [waiter EXCEPT
            !.pc = IF target_up THEN "returned" ELSE "tick",
            !.now = waiter.now + d,
            !.attempts = Append(waiter.attempts,
                [at |-> waiter.now, done |-> waiter.now + d, ok |-> target_up])]
    /\ UNCHANGED <<builder, result, routed, published, sessions, response,
                   is_polling_target, target_up, requests, pollers, disk,
                   forwarded, senders, proxy_target, sockets, watcher>>

\* interval.tick().await: completes when the tick is due, at once when it is
\* overdue; the next tick is due one period after this one was.
wait_for_proxy_tick ==
    /\ waiter.pc = "tick"
    /\ waiter' = [waiter EXCEPT
            !.pc = "connect",
            !.now = IF waiter.now < waiter.deadline THEN waiter.deadline ELSE waiter.now,
            !.deadline = waiter.deadline + PollPeriod]
    /\ UNCHANGED <<builder, result, routed, published, sessions, response,
                   is_polling_target, target_up, requests, pollers, disk,
                   forwarded, senders, proxy_target, sockets, watcher>>

\* ------------------------------------------------------------------------
\* WebSocket session: the socket (ws.rs)
\* ------------------------------------------------------------------------

\* The socket of a session: whether a websocket.send has failed on it and
\* whether websocket.flush has been called on it.
NewSocket == [send_failed |-> FALSE, flushed |-> FALSE]

\* The Ok arms when websocket.send returns an error: the warning is logged,
\* the frame has not reached the peer, and the loop goes on.
send_failed(sess, r) == [sess EXCEPT !.next = r.next]

\* handle_connection: the actions.recv() branch of the select! for an action
\* whose websocket.send(..).await is an Err. One failed send per socket is
\* followed.
session_send_fails(s) ==
    /\ sessions[s].pc = "loop"
    /\ ~sockets[s].send_failed
    /\ LET r == recv(sessions[s], published)
       IN  /\ r.kind = "Ok"
           /\ sessions' = [sessions EXCEPT ![s] = send_failed(@, r)]
    /\ sockets' = [sockets EXCEPT ![s].send_failed = TRUE]
    /\ response' = NoResponse
    /\ UNCHANGED <<published, cfgvars, proxyvars, disk, forwarded, senders,
                   proxy_target, waiter, watcher>>

\* What websocket.next() yields, frame by frame.
ClientFrames ==
    { "None", "Close", "Ping", "Pong", "Text", "Binary",
      "ResetWithoutClosingHandshake", "Error" }

\* What websocket.flush() returns: Ok, one of the errors of a closed
\* connection that are passed over, or another error, which is logged.
FlushResults == { "Ok", "ConnectionClosed", "Error" }

\* The Ping arm leaving the loop when the flush failed.
after_flush_break(sess, flushed) ==
    IF flushed = "Ok" THEN sess ELSE [sess EXCEPT !.pc = "ended"]

\* The Ping arm after the flush: every result leaves the loop running.
after_flush(sess, flushed) == sess

\* handle_connection: the websocket.next() branch of the select!, with the
\* flush of the Ping arm and its result; the last arm logs the frame and
\* does nothing else. The socket is dropped with a task that returns.
session_frame(s, message, flushed) ==
    /\ sessions[s].pc = "loop"
    /\ sessions' = [sessions EXCEPT ![s] =
            IF peer_ends(message) THEN Ended
            ELSE IF message = "Ping" THEN after_flush(@, flushed)
            ELSE @]
    /\ sockets' = [sockets EXCEPT ![s] =
            IF peer_ends(message) THEN NewSocket
            ELSE [@ EXCEPT !.flushed = (message = "Ping" \/ @)]]
    /\ response' = NoResponse
    /\ UNCHANGED <<published, cfgvars, proxyvars, disk, forwarded, senders,
                   proxy_target, waiter, watcher>>

\* ------------------------------------------------------------------------
\* watch (app/src/server.rs): the thread that debounces file-system events
\* ------------------------------------------------------------------------

\* DEBOUNCE_DURATION, 200 ms in the code, in ticks of the clock of the model.
DEBOUNCE_DURATION == 2

\* The last tick of the clock and the largest number of events.
MaxTime == 7
MaxEvents == 4

\* The thread waits in rx.recv() for the first event of the channel, which
\* is empty and connected; `arrivals` are the times at which the watcher
\* sent its events.
NewWatcher ==
    [pc |-> "recv", queue |-> 0, deadline |-> 0, connected |-> TRUE, now |-> 0,
     arrivals |-> <<>>]

\* The thread has something to do at this instant: an event to receive, a
\* wait that ran out, or a disconnected channel to notice.
watch_can_step ==
    /\ watcher.pc # "ended"
    /\ \/ watcher.queue > 0
       \/ ~watcher.connected
       \/ watcher.pc = "debounce" /\ watcher.now >= watcher.deadline

\* The watcher of notify sends an event into the channel.  An event that
\* falls on the instant at which a wait runs out arrives after it.
notify_event ==
    /\ watcher.connected
    /\ Len(watcher.arrivals) < MaxEvents
    /\ ~(watcher.pc = "debounce" /\ watcher.queue = 0 /\ watcher.now >= watcher.deadline)
    /\ watcher' = [watcher EXCEPT !.queue = @ + 1,
                                  !.arrivals = Append(@, watcher.now)]
    /\ UNCHANGED <<published, sessions, response, cfgvars, proxyvars, disk,
                   forwarded, senders, proxy_target, waiter, sockets>>

\* The sender of the channel is dropped.
notify_dropped ==
    /\ watcher.connected
    /\ watcher' = [watcher EXCEPT !.connected = FALSE]
    /\ UNCHANGED <<published, sessions, response, cfgvars, proxyvars, disk,
                   forwarded, senders, proxy_target, waiter, sockets>>

\* while let Ok(event) = rx.recv(): an event starts the debouncing, a
\* channel that is empty and disconnected ends the thread.
watch_recv ==
    /\ watcher.pc = "recv"
    /\ \/ /\ watcher.queue > 0
          /\ watcher' = [watcher EXCEPT !.pc = "debounce", !.queue = @ - 1,
                                        !.deadline = watcher.now + DEBOUNCE_DURATION]
       \/ /\ watcher.queue = 0
          /\ ~watcher.connected
          /\ watcher' = [watcher EXCEPT !.pc = "ended"]
    /\ UNCHANGED <<published, sessions, response, cfgvars, proxyvars, disk,
                   forwarded, senders, proxy_target, waiter, sockets>>

\* An event during the debouncing that leaves the wait as it was begun.
watch_debounce_interrupted_late ==
    /\ watcher.pc = "debounce"
    /\ watcher.queue > 0
    /\ watcher' = [watcher EXCEPT !.queue = @ - 1]
    /\ UNCHANGED <<published, sessions, response, cfgvars, proxyvars, disk,
                   forwarded, senders, proxy_target, waiter, sockets>>

\* rx.recv_timeout(DEBOUNCE_DURATION) returns Ok(event): the loop calls it
\* again, with the whole duration.
watch_debounce_interrupted ==
    /\ watcher.pc = "debounce"
    /\ watcher.queue > 0
    /\ watcher' = [watcher EXCEPT !.queue = @ - 1,
                                  !.deadline = watcher.now + DEBOUNCE_DURATION]
    /\ UNCHANGED <<published, sessions, response, cfgvars, proxyvars, disk,
                   forwarded, senders, proxy_target, waiter, sockets>>

\* rx.recv_timeout returns Err(Timeout): the loop is left and
\* controller.reload() sends a Reload; the thread waits in rx.recv() again.
watch_timeout ==
    /\ watcher.pc = "debounce"
    /\ watcher.queue = 0
    /\ watcher.now >= watcher.deadline
    /\ watcher' = [watcher EXCEPT !.pc = "recv"]
    /\ published' = send(published, Reload)
    /\ UNCHANGED <<sessions, response, cfgvars, proxyvars, disk,
                   forwarded, senders, proxy_target, waiter, sockets>>

\* rx.recv_timeout returns Err(Disconnected): the thread returns.
watch_disconnected ==
    /\ watcher.pc = "debounce"
    /\ watcher.queue = 0
    /\ ~watcher.connected
    /\ watcher' = [watcher EXCEPT !.pc = "ended"]
    /\ UNCHANGED <<published, sessions, response, cfgvars, proxyvars, disk,
                   forwarded, senders, proxy_target, waiter, sockets>>

\* Time passes while the thread is blocked in a receive.
watch_tick ==
    /\ watcher.now < MaxTime
    /\ ~watch_can_step
    /\ watcher' = [watcher EXCEPT !.now = @ + 1]
    /\ UNCHANGED <<published, sessions, response, cfgvars, proxyvars, disk,
                   forwarded, senders, proxy_target, waiter, sockets>>

\* ------------------------------------------------------------------------
\* Specifications
\* ------------------------------------------------------------------------


\* The server state right after Server::build: an empty channel, no session,
\* the polling flag clear (ProxyContext::new), no request in flight.
RuntimeInit ==
    /\ published = <<>>
    /\ sessions = [s \in 1..MaxSessions |-> NoSession]
    /\ response = NoResponse
    /\ is_polling_target = FALSE
    /\ requests = [r \in 1..MaxRequests |-> NoForward]
    /\ pollers = [p \in 1..MaxPollers |-> "unspawned"]
    /\ forwarded = NotForwarded
    /\ senders = AllSenders
    /\ proxy_target = NotParsed
    /\ waiter = NotWaiting
    /\ sockets = [s \in 1..MaxSessions |-> NewSocket]
    /\ watcher = NewWatcher

\* Builder::new, before any server exists.
InitConfig ==
    /\ builder = BuilderNew
    /\ result = "building"
    /\ routed = NotRouted
    /\ target_up = TRUE
    /\ disk = PlainDisk
    /\ RuntimeInit

NextConfig ==
    \/ \E u \in MountInputs, f \in FsPaths : add_mount(u, f)
    \/ \E t \in ProxyTargets : proxy(t)
    \/ \E c \in ControlPathInputs : set_control_path(c)
    \/ validate
    \/ \E path \in RequestPaths : route(path)

\* The configuration builder and the routing decision for every request path.
SpecConfig == InitConfig /\ [][NextConfig]_vars

\* A server built from ServerConfig.
InitServer ==
    /\ builder = ServerConfig
    /\ result = "Config"
    /\ routed = NotRouted
    /\ target_up = TRUE
    /\ disk = PlainDisk
    /\ RuntimeInit

NextControl ==
    \/ \E req \in ControlRequests : handle_control(req)
    \/ controller_reload
    \/ \E msg \in ControllerMessages : controller_show_message(msg)
    \/ \E s \in 1..MaxSessions, ok \in BOOLEAN : session_handshake(s, ok)
    \/ \E s \in 1..MaxSessions : session_recv(s)
    \/ \E s \in 1..MaxSessions, m \in PeerMessages : session_peer(s, m)

NextProxy ==
    \/ forward_err
    \/ \E r \in 1..MaxRequests : start_polling_cas(r)
    \/ \E r \in 1..MaxRequests : start_polling_spawn(r)
    \/ \E r \in 1..MaxRequests, timeout \in BOOLEAN : gateway_error(r, timeout)
    \/ \E p \in 1..MaxPollers : poller_probe(p)
    \/ \E p \in 1..MaxPollers : poller_send(p)
    \/ \E p \in 1..MaxPollers : poller_clear(p)
    \/ target_flip

\* The control plane of the running server: control requests, Controller
\* calls and WebSocket sessions.
SpecControl == InitServer /\ [][NextControl]_vars

\* The proxy backend of the running server while the target goes down and
\* comes back: transport errors and the poller.
SpecProxy == InitServer /\ [][NextProxy]_vars

NextProxyTimed ==
    \/ forward_err
    \/ \E r \in 1..MaxRequests : start_polling_cas(r)
    \/ \E r \in 1..MaxRequests : start_polling_spawn(r)
    \/ \E r \in 1..MaxRequests, timeout \in BOOLEAN : gateway_error(r, timeout)
    \/ \E p \in 1..MaxPollers : poller_probe_after_sleep(p)
    \/ \E p \in 1..MaxPollers : poller_send(p)
    \/ \E p \in 1..MaxPollers : poller_clear(p)
    \/ target_flip

\* The proxy backend when no handler is held up between its compare-and-swap
\* and its response for as long as a poller sleeps.
SpecProxyTimed == InitServer /\ [][NextProxyTimed]_vars

\* GET {control_path}/client.js, the URL of the injected script tag.
ScriptRequest == Get(script_src(ServerConfig), <<>>)

\* A POST {control_path}/message whose body cannot be downloaded.
BrokenUpload ==
    [method |-> "POST", path |-> DEFAULT_CONTROL_PATH \o Path_message,
     upgrade |-> FALSE, valid |-> FALSE,
     body |-> [utf8 |-> FALSE, text |-> "", error |-> TRUE], range |-> <<>>]

\* Requests to the control path: a reload, a WebSocket upgrade, the script
\* URL and a broken upload.
ServeRequests ==
    { req \in ControlRequests :
        \/ req.method = "POST" /\ req.path = DEFAULT_CONTROL_PATH \o Path_reload
        \/ req.upgrade /\ req.valid }
    \cup { ScriptRequest, BrokenUpload }

\* Requests to the mount: a file, a Range header that does not parse, a
\* symbolic link that loops.
MountRequests ==
    { Get("/a/f", <<>>), Get("/a/f", Some(RangeHeader(TRUE, <<RangeSpec(3, 1)>>))),
      Get("/a/k", <<>>) }

NextServe ==
    \/ \E req \in ServeRequests : handle_control(req)
    \/ \E req \in MountRequests : handle_file(req)
    \/ \E s \in 1..MaxSessions, ok \in BOOLEAN : session_handshake(s, ok)
    \/ \E s \in 1..MaxSessions : session_recv(s)

\* The request handlers of the running server, those that panic among
\* them, next to the WebSocket sessions.
SpecServe == InitServer /\ [][NextServe]_vars

NextFiles ==
    \/ \E req \in FileRequests : handle_file(req)
    \/ \E fs \in Disks : disk_change(fs)

\* The file backend of the running server over the file systems of the
\* model.
SpecFiles == InitServer /\ [][NextFiles]_vars

\* File systems whose HTML file has other contents.
HtmlDisks ==
    { [PlainDisk EXCEPT ![<<"A", "d", "index.html">>] = File(content)] :
        content \in { "", "<html><body>ab</body></html>", "text", Pad(SNIFF_LEN) \o "</BODY>" } }

\* The bytes a sequence of chunks carries.
RECURSIVE ChunkBytes(_)
ChunkBytes(chunks) ==
    IF chunks = <<>> THEN ""
    ELSE ChunkBytes(SubSeq(chunks, 1, Len(chunks) - 1)) \o chunks[Len(chunks)]

\* Responses of the target with and without a Content-Type header, of HTML
\* and of other types, whose bodies do and do not look like HTML.
ContentTypes ==
    { <<>>, Some("text/html"), Some("text/html; charset=utf-8"),
      Some("application/xhtml+xml"), Some("text/plain"), Some("application/json"),
      Some("TEXT/HTML"), Some("") }

SniffedBodies ==
    { "<p></body>", "  <HTML >x", "<!DOCTYPE html><body>x</body>", "a</body>", "{}", "",
      "<p>" \o NUL \o "</body>", NUL, "<table></body>" }

SniffedResponses ==
    { TargetResponse(200, TargetHeaders(content_type, <<>>, <<>>, <<>>), body) :
        content_type \in ContentTypes, body \in SniffedBodies }

\* Bodies in chunks: shorter than the sniffing limit, ending the sniffing
\* exactly on it and beyond it, with empty chunks, and with a NUL byte
\* inside and after the sniffed bytes.
Chunkings ==
    { <<>>, <<"">>, <<"a", "b", "c">>, <<"<p>", "x</body>">>, <<"{", "", "}">>,
      <<"<p>" \o Pad(SNIFF_LEN - 3), "tail">>,
      <<"<p>" \o Pad(SNIFF_LEN - 4), "xy", "z", "w">>,
      <<Pad(SNIFF_LEN + 5), "<p>">>,
      <<Pad(SNIFF_LEN - 6), Pad(SNIFF_LEN - 6), Pad(SNIFF_LEN - 6)>>,
      <<"<p>", "", Pad(SNIFF_LEN - 3), NUL \o "x">>,
      <<"<p>" \o Pad(SNIFF_LEN) \o NUL, "q">>,
      <<"<p>", Pad(SNIFF_LEN) \o "</body>", "</html>">> }

ChunkedResponses ==
    { ChunkedResponse(status, TargetHeaders(content_type, <<>>, content_length, <<>>),
                      chunks, ChunkBytes(chunks)) :
        status \in { 200, 404 },
        content_type \in { <<>>, Some("text/html"), Some("text/plain"),
                           Some("application/octet-stream") },
        content_length \in { <<>>, Some("7") },
        chunks \in Chunkings }

\* Redirects of the target: to itself with and without path, query and
\* fragment, to other authorities, relative ones, and values that are no
\* URI or no UTF-8.
Locations ==
    { "http://localhost:8000/new?x=1", "https://LOCALHOST:8000/a", "http://localhost:8000",
      "http://localhost:8000?q", "http://localhost:8000/p#top", "http://localhost:8000/",
      "http://localhost:9000/x", "http://localhost/x", "http://example.com/x",
      "https://example.com", "http://user@localhost:8000/x", "ftp://localhost:8000/f",
      "/relative?x=1", "//localhost:8000/x", "relative", "", "http://exa mple.com/",
      "http://", "/a b", "http://localhost:8000/" \o BYTE_FF, BYTE_FF,
      "localhost:8000", "example.com:80", "*" }

RedirectResponses ==
    { TargetResponse(status,
            [location |-> location] @@ TargetHeaders(content_type, <<>>, <<>>, <<>>), body) :
        location \in Locations,
        status \in { 301, 201 },
        content_type \in { <<>>, Some("text/plain") },
        body \in { "", "moved" } }
    \cup
    { TargetResponse(301,
            [location |-> location] @@ TargetHeaders(Some("text/html"), <<>>, <<>>, <<>>),
            "<p>moved</p>") :
        location \in { "http://localhost:8000/new?x=1", "http://example.com/x", "/relative?x=1" } }

NextForward ==
    \/ \E req \in ForwardRequests : forward_ok(req, PlainHtml)
    \/ \E target_response \in RedirectResponses : forward_ok(PlainForward, target_response)
    \/ \E target_response \in ChunkedResponses : forward_ok(PlainForward, target_response)
    \/ \E target_response \in TargetResponses : forward_ok(PlainForward, target_response)
    \/ \E target_response \in SniffedResponses : forward_ok(PlainForward, target_response)
    \/ forward_done

\* The proxy backend of the running server while the target answers.
SpecForward == InitServer /\ [][NextForward]_vars

\* A file system with folders and files whose names differ in case and in
\* the bytes around `/`.
OrderDisk ==
    <<>> :> Dir @@ <<"s">> :> File("secret") @@ <<"A">> :> Dir
    @@ <<"A", "b">> :> File("x")
    @@ <<"A", "B">> :> File("y")
    @@ <<"A", "a">> :> Dir
    @@ <<"A", "a-b">> :> Dir
    @@ <<"A", "a.d">> :> Dir
    @@ <<"A", "Z">> :> Dir
    @@ <<"A", "m">> :> Dir
    @@ <<"A", "a", "0">> :> File("")

ListingDisks == Disks \cup { OrderDisk }

\* Configurations Builder::validate returns: the mount "/a" alone, with a
\* mount below it, with a mount beside it whose path starts alike, with a
\* mount whose folder is missing, and a root mount with two mounts that
\* share their first segment.
ListingConfigs ==
    { [ServerConfig EXCEPT !.mounts = mounts] :
        mounts \in { <<[uri_path |-> Chars("/a"), fs_path |-> "./A"]>>,
                     <<[uri_path |-> Chars("/a"), fs_path |-> "./A"],
                       [uri_path |-> Chars("/a/m"), fs_path |-> "./A"]>>,
                     <<[uri_path |-> Chars("/a"), fs_path |-> "./A"],
                       [uri_path |-> Chars("/a/e/x/y"), fs_path |-> "./s"]>>,
                     <<[uri_path |-> Chars("/a"), fs_path |-> "./A"],
                       [uri_path |-> Chars("/ab"), fs_path |-> "./s"]>>,
                     <<[uri_path |-> Chars("/a"), fs_path |-> "./A"],
                       [uri_path |-> Chars("/b"), fs_path |-> "./A"]>>,
                     <<[uri_path |-> Chars("/a"), fs_path |-> "./A"],
                       [uri_path |-> Chars("/a/gone"), fs_path |-> "./missing"]>> } }
    \cup
    { [ServerConfig EXCEPT !.proxy = None,
                           !.mounts = <<[uri_path |-> Chars("/"), fs_path |-> "./A"],
                                        [uri_path |-> Chars("/m/1"), fs_path |-> "./A"],
                                        [uri_path |-> Chars("/m/2"), fs_path |-> "./s"]>>] }

ListingRequests ==
    { Get(p, <<>>) : p \in { "/a", "/a/", "/", "/a/e", "/a/e/", "/a/a", "/a/a/", "/b",
                             "/a/f", "/a/d", "/m/1/", "/a/m/", "/e/" } }

InitListing ==
    /\ builder \in ListingConfigs
    /\ result = "Config"
    /\ routed = NotRouted
    /\ target_up = TRUE
    /\ disk \in ListingDisks
    /\ RuntimeInit

NextListing ==
    \/ \E req \in ListingRequests : handle_file(req)
    \/ \E fs \in ListingDisks : disk_change(fs)

\* The file backend of servers with several mounts, listing folders.
SpecListing == InitListing /\ [][NextListing]_vars

\* HTML responses of the target in every encoding, without Content-Length,
\* with the length of their body and with another one.
LengthBodies(format) ==
    { <<IF format = "" THEN doc ELSE compress(format, "6", doc)>> :
        doc \in { "<p></body>", "" } }
    \cup { IF format = "" THEN <<"<p>" \o Pad(SNIFF_LEN), "</body>">> ELSE <<"">> }

LengthResponses ==
    UNION { { ChunkedResponse(200,
                    TargetHeaders(Some("text/html"), encoding[1], content_length, <<>>),
                    chunks, ChunkBytes(chunks)) :
                content_length \in { <<>>, Some("7"), Some("1000") },
                chunks \in LengthBodies(encoding[2]) } :
            encoding \in { <<<<>>, "">>, <<Some("identity"), "">>, <<Some("deflate"), "">>,
                           <<Some("gzip"), "gz">>, <<Some("br"), "br">> } }

\* Requests for files: an HTML file, an index file of a directory, a file
\* that is no HTML, and a part of it.
LengthRequests ==
    { Get("/a/d/index.html", <<>>), Get("/a/d", <<>>), Get("/a/f", <<>>), Get("/a/i", <<>>),
      Get("/a/f", Some(RangeHeader(TRUE, <<RangeSpec(3, 1)>>))) }

NextLength ==
    \/ \E target_response \in TargetResponses : forward_ok(PlainForward, target_response)
    \/ \E target_response \in LengthResponses : forward_ok(PlainForward, target_response)
    \/ forward_done
    \/ \E req \in LengthRequests : forwarded = NotForwarded /\ handle_file(req)
    \/ \E fs \in Disks \cup HtmlDisks : forwarded = NotForwarded /\ disk_change(fs)

\* The proxy and the file backend of the running server with the bodies
\* they rewrite.
SpecLength == InitServer /\ [][NextLength]_vars

\* The WebSocket upgrade request that hyper_tungstenite accepts.
UpgradeRequest ==
    [method |-> "GET", path |-> DEFAULT_CONTROL_PATH,
     upgrade |-> TRUE, valid |-> TRUE, body |-> EmptyBody, range |-> <<>>]

NextShutdown ==
    \/ handle_control(UpgradeRequest)
    \/ Len(published) < MaxPublish - MaxPollers /\ controller_reload
    \/ controller_clone
    \/ controller_drop
    \/ server_drop
    \/ \E s \in 1..MaxSessions, ok \in BOOLEAN : session_handshake(s, ok)
    \/ \E s \in 1..MaxSessions : session_recv(s)
    \/ \E s \in 1..MaxSessions : session_closed(s)
    \/ IdleRequest = 1 /\ forward_err
    \/ \E r \in 1..MaxRequests : start_polling_cas(r)
    \/ \E r \in 1..MaxRequests : start_polling_spawn(r)
    \/ \E r \in 1..MaxRequests, timeout \in BOOLEAN : gateway_error(r, timeout)
    \/ \E p \in 1..MaxPollers : poller_probe(p)
    \/ \E p \in 1..MaxPollers : poller_send(p)
    \/ \E p \in 1..MaxPollers : poller_clear(p)
    \/ target_flip

\* The tokio runtime polls every task that can make a step: the sessions,
\* the handlers and the pollers go on.  Nothing makes the application, the
\* browsers or the proxy target take a step.
FairShutdown ==
    /\ \A s \in 1..MaxSessions :
            /\ WF_vars(\E ok \in BOOLEAN : session_handshake(s, ok))
            /\ WF_vars(session_recv(s))
            /\ WF_vars(session_closed(s))
    /\ \A r \in 1..MaxRequests :
            /\ WF_vars(start_polling_cas(r))
            /\ WF_vars(start_polling_spawn(r))
            /\ WF_vars(\E timeout \in BOOLEAN : gateway_error(r, timeout))
    /\ \A p \in 1..MaxPollers :
            /\ WF_vars(poller_probe(p))
            /\ WF_vars(poller_send(p))
            /\ WF_vars(poller_clear(p))

\* The running server with its sessions and pollers while the application
\* drops the Server future and its Controllers.
SpecShutdown == InitServer /\ [][NextShutdown]_vars /\ FairShutdown

NextTarget ==
    \/ \E input \in TargetInputs : parse_target(input)
    \/ parse_target_done

\* The parsing of the proxy target given by the user, one string at a time.
SpecTarget == InitServer /\ [][NextTarget]_vars

NextWait ==
    \/ wait_for_proxy
    \/ \E d \in 0..MaxConnect : wait_for_proxy_connect(d)
    \/ wait_for_proxy_tick
    \/ target_flip

\* The application waiting for its proxy target with wait_for_proxy while
\* the target comes up and goes down.
SpecWait == InitServer /\ [][NextWait]_vars

NextSocket ==
    \/ handle_control(UpgradeRequest)
    \/ Len(published) < ChannelCapacity /\ controller_reload
    \/ \E s \in 1..MaxSessions, ok \in BOOLEAN : session_handshake(s, ok)
    \/ \E s \in 1..MaxSessions : session_recv(s)
    \/ \E s \in 1..MaxSessions : session_send_fails(s)
    \/ \E s \in 1..MaxSessions, message \in ClientFrames \ {"Ping"} :
            session_frame(s, message, "Ok")
    \/ \E s \in 1..MaxSessions, flushed \in FlushResults :
            session_frame(s, "Ping", flushed)

\* The sessions of the running server with their sockets: sends that fail
\* and the frames of the peers, while the channel holds every action sent.
SpecSocket == InitServer /\ [][NextSocket]_vars

NextSubscribe ==
    \/ handle_control(UpgradeRequest)
    \/ Len(published) < ChannelCapacity /\ controller_reload
    \/ \E msg \in ControllerMessages :
            Len(published) < ChannelCapacity /\ controller_show_message(msg)
    \/ \E s \in 1..MaxSessions, ok \in BOOLEAN : session_handshake(s, ok)
    \/ \E s \in 1..MaxSessions : session_recv(s)
    \/ \E s \in 1..MaxSessions : session_frame(s, "Close", "Ok")

\* The Controller of the application publishing while browsers subscribe,
\* receive and leave, the channel holding every action sent.
SpecSubscribe == InitServer /\ [][NextSubscribe]_vars

NextPanic ==
    \/ NextProxy
    \/ \E r \in 1..MaxRequests : start_polling_panic(r)

\* The proxy backend while the target goes down and comes back, with
\* handlers that panic inside start_polling.
SpecPanic == InitServer /\ [][NextPanic]_vars

NextWatch ==
    \/ notify_event
    \/ notify_dropped
    \/ watch_recv
    \/ watch_debounce_interrupted
    \/ watch_timeout
    \/ watch_disconnected
    \/ watch_tick

\* The watcher thread of the application beside the running server, with
\* events at every instant of the clock.
SpecWatch == InitServer /\ [][NextWatch]_vars

\* ------------------------------------------------------------------------
\* Properties
\* ------------------------------------------------------------------------

\* Some mount's uri_path is a prefix of the path.
MountMatches(path, mounts) ==
    \E i \in 1..Len(mounts) : starts_with(path, mounts[i].uri_path)

\* All orders of a sequence.
Orders(seq) ==
    { [i \in 1..Len(seq) |-> seq[f[i]]] :
        f \in { g \in [1..Len(seq) -> 1..Len(seq)] :
                  \A i, j \in 1..Len(seq) : i # j => g[i] # g[j] } }

\* C1: every routed request is answered by exactly one backend, chosen in
\* the order control path, matching mount, proxy, 404; a request under the
\* control path is never served by a mount, even if a mount prefix matches.
RouterDecisionOrder ==
    routed.backend # "none" =>
        LET control == starts_with(routed.path, builder.control_path)
            mount == MountMatches(routed.path, builder.mounts)
        IN  /\ routed.backend \in {"control", "file", "proxy", "not_found"}
            /\ (routed.backend = "control") <=> control
            /\ (routed.backend = "file") <=> (~control /\ mount)
            /\ (routed.backend = "proxy") <=> (~control /\ ~mount /\ builder.proxy # None)
            /\ (routed.backend = "not_found") <=> (~control /\ ~mount /\ builder.proxy = None)
            /\ (routed.served # <<>>) <=> (routed.backend = "file")

\* C1 happens: a request under the control path that a mount prefix matches
\* too was routed to the control handler.
ControlBeatsMountReached ==
    /\ routed.backend = "control"
    /\ MountMatches(routed.path, builder.mounts)

\* C2: the mount that serves a request is the one with the longest uri_path
\* that is a prefix of the path, no mount is selected iff none is a prefix,
\* and the selection is the same for every order of the mounts.
MostSpecificMountWins ==
    routed.backend \in {"file", "proxy", "not_found"} =>
        LET path == routed.path
            mounts == builder.mounts
            selected == try_serve(path, mounts)
        IN  /\ routed.backend = "file" => routed.served = selected
            /\ (selected = <<>>) <=> ~MountMatches(path, mounts)
            /\ selected # <<>> =>
                  /\ starts_with(path, selected[1].mount.uri_path)
                  /\ HasMount(mounts, selected[1].mount.uri_path)
                  /\ \A i \in 1..Len(mounts) :
                        starts_with(path, mounts[i].uri_path) =>
                            Len(mounts[i].uri_path) <= Len(selected[1].mount.uri_path)
            /\ \A order \in Orders(mounts) : try_serve(path, order) = selected

\* C2 happens: two mounts match the request, and the one added first is the
\* longer one and serves it.
LongerMountAddedFirstReached ==
    /\ routed.backend = "file"
    /\ Len(builder.mounts) >= 2
    /\ starts_with(routed.path, builder.mounts[1].uri_path)
    /\ starts_with(routed.path, builder.mounts[2].uri_path)
    /\ Len(builder.mounts[1].uri_path) > Len(builder.mounts[2].uri_path)
    /\ routed.served[1].mount = builder.mounts[1]

\* C3: a Config is returned only with a proxy or a mount, without a mount on
\* "/" next to a proxy, and with pairwise distinct mount uri_paths; the
\* errors are returned exactly for the violated condition.
ConfigInvariant ==
    LET mounts == builder.mounts
        some == builder.proxy # None \/ Len(mounts) >= 1
        root == \E i \in 1..Len(mounts) : mounts[i].uri_path = <<"/">>
        distinct == \A i, j \in 1..Len(mounts) :
                        i # j => mounts[i].uri_path # mounts[j].uri_path
    IN  /\ distinct
        /\ result = "Config" => some /\ ~(builder.proxy # None /\ root)
        /\ result = "NoProxyOrMount" => ~some
        /\ result = "ProxyAndRootMount" => builder.proxy # None /\ root
        /\ result = "DuplicateUriPath" => Len(mounts) >= 1
        /\ result \in {"building", "Config", "NoProxyOrMount", "ProxyAndRootMount",
                        "DuplicateUriPath", "panic"}

\* C3 happens: validate returned a Config with a proxy and two mounts.
ConfigWithProxyAndMountsReached ==
    /\ result = "Config"
    /\ builder.proxy # None
    /\ Len(builder.mounts) >= 2

\* A path that starts with '/' and does not end with '/' unless it is "/".
Normalized(path) ==
    /\ Len(path) >= 1
    /\ path[1] = "/"
    /\ (path[Len(path)] # "/" \/ path = <<"/">>)

\* C4: every path stored by add_mount or set_control_path starts with '/'
\* and does not end with '/' unless it is exactly "/".
PathNormalization ==
    /\ Normalized(builder.control_path)
    /\ \A i \in 1..Len(builder.mounts) : Normalized(builder.mounts[i].uri_path)

\* No poller is running or about to run and no request is between its
\* transport error and its response.
Quiescent ==
    /\ \A p \in 1..MaxPollers : pollers[p] \in {"unspawned", "exited"}
    /\ \A r \in 1..MaxRequests : requests[r].pc \in {"idle", "responded"}

\* C5: once the target is reachable again and nothing is left to run, every
\* gateway-error response produced so far was followed by the publication
\* of a Reload.
GatewayErrorReloaded ==
    (target_up /\ Quiescent) =>
        \A r \in 1..MaxRequests :
            requests[r].pc = "responded" => Len(published) > requests[r].at

\* The poller tasks that were spawned and have not ended.
ActivePollers ==
    { p \in 1..MaxPollers : pollers[p] \in {"sleep", "connected", "sent"} }

\* The requests that won the compare-and-swap and are about to spawn.
SpawningRequests ==
    { r \in 1..MaxRequests : requests[r].pc = "spawning" }

\* C6: at most one poller task is active (running or about to be spawned),
\* however many requests hit a transport error.
SinglePoller ==
    Cardinality(ActivePollers) + Cardinality(SpawningRequests) <= 1

\* C6 happens: two requests hit a transport error and were answered while
\* the poller started by the first one is running; no second poller exists.
SecondFailureNoPollerReached ==
    /\ requests[1].pc = "responded"
    /\ requests[2].pc = "responded"
    /\ pollers[1] = "sleep"
    /\ pollers[2] = "unspawned"

\* POST {control_path}/reload
IsPostReload(req) ==
    /\ req.method = "POST"
    /\ ~req.upgrade
    /\ req.path = builder.control_path \o <<"/", "r", "e", "l", "o", "a", "d">>

\* A session that is subscribed and has never lagged.
Attentive(s) ==
    /\ sessions[s].pc \in {"handshake", "loop"}
    /\ sessions[s].lagged = 0

\* C7: every POST {control_path}/reload is answered 200 with an empty body
\* and publishes exactly one Reload; every subscribed session that has not
\* lagged sends one "reload" frame per Reload published since it subscribed,
\* at the position of that Reload among the actions published since then,
\* and can receive whatever it has not received yet.
ReloadFanOut ==
    /\ [][IsPostReload(response'.req) =>
            /\ response'.status = 200
            /\ response'.body = ""
            /\ published' = Append(published, <<"Reload">>)
            /\ sessions' = sessions]_vars
    /\ [](\A s \in 1..MaxSessions : Attentive(s) =>
            /\ Len(sessions[s].frames) = sessions[s].next - sessions[s].at - 1
            /\ \A i \in 1..Len(sessions[s].frames) :
                    (published[sessions[s].at + i] = <<"Reload">>)
                        <=> (sessions[s].frames[i] = "reload")
            /\ (sessions[s].pc = "loop" /\ sessions[s].next <= Len(published))
                    => ENABLED session_recv(s))

\* C7 happens: a POST /reload was just answered while two sessions are
\* subscribed that have sent the frames of all actions published before it.
ReloadPostedToTwoSessionsReached ==
    /\ IsPostReload(response.req)
    /\ response.status = 200
    /\ \A s \in 1..2 :
          /\ sessions[s].pc = "loop"
          /\ sessions[s].lagged = 0
          /\ Len(sessions[s].frames) >= 1
          /\ sessions[s].next = Len(published)

\* Strictly increasing sequence of numbers.
Increasing(seq) ==
    \A i, j \in 1..Len(seq) : i < j => seq[i] < seq[j]

\* C8: the frames a session sends are, one per received action and in the
\* order of reception, "reload" for Reload and "message\n" followed by the
\* message for Message; the order of reception is the publish order.
PerSessionFraming ==
    \A s \in 1..MaxSessions :
        /\ Len(sessions[s].frames) = Len(sessions[s].indices)
        /\ Increasing(sessions[s].indices)
        /\ \A k \in 1..Len(sessions[s].frames) :
              LET action == published[sessions[s].indices[k]]
              IN  sessions[s].frames[k] =
                      IF action[1] = "Reload" THEN "reload"
                      ELSE "message\n" \o action[2]

\* C8 happens: a session has sent the frame of a Message and then the frame
\* of a Reload.
MessageThenReloadFramedReached ==
    \E s \in 1..MaxSessions : sessions[s].frames = <<"message\nhi", "reload">>

\* C9: the channel is one append-only log that every publisher extends by
\* one action at a time; what a session observes is a subsequence of it, so
\* two sessions never observe two actions in opposite orders.
CrossSessionConsistency ==
    /\ [][published' # published =>
            /\ Len(published') = Len(published) + 1
            /\ SubSeq(published', 1, Len(published)) = published]_vars
    /\ [](\A s \in 1..MaxSessions :
            /\ Increasing(sessions[s].indices)
            /\ \A k \in 1..Len(sessions[s].indices) :
                  /\ sessions[s].indices[k] > sessions[s].at
                  /\ sessions[s].indices[k] <= Len(published))
    /\ [](\A s, t \in 1..MaxSessions :
            \A i, j \in 1..Len(sessions[s].indices) :
                \A k, l \in 1..Len(sessions[t].indices) :
                    ( /\ sessions[s].indices[i] = sessions[t].indices[k]
                      /\ sessions[s].indices[j] = sessions[t].indices[l]
                      /\ i < j ) => k < l)

\* C9 happens: two sessions that subscribed at different points of the log
\* have both observed actions, the later one a proper part of what the
\* earlier one observed.
TwoObserversReached ==
    /\ sessions[1].indices = <<1, 2, 3>>
    /\ sessions[2].indices = <<2, 3>>
    /\ published[2] # published[3]

\* C10: a session that is told Lagged stays in its loop with its receiver at
\* the oldest retained action, the step changes nothing for any other
\* session, and the session goes on receiving in publish order; a session
\* that did not lag has sent the frames of all actions up to its cursor.
LaggedTolerance ==
    /\ [][\A s \in 1..MaxSessions :
            sessions'[s].lagged > sessions[s].lagged =>
                /\ sessions'[s].pc = sessions[s].pc
                /\ sessions'[s].pc = "loop"
                /\ sessions'[s].frames = sessions[s].frames
                /\ sessions'[s].next > sessions[s].next
                /\ sessions'[s].next <= Len(published)
                /\ published' = published
                /\ \A t \in 1..MaxSessions : t # s => sessions'[t] = sessions[t]]_vars
    /\ [](\A s \in 1..MaxSessions :
            /\ Increasing(sessions[s].indices)
            /\ (sessions[s].pc = "loop" /\ sessions[s].next <= Len(published))
                    => ENABLED session_recv(s)
            /\ Attentive(s) =>
                    sessions[s].indices =
                        [k \in 1..(sessions[s].next - sessions[s].at - 1) |->
                            sessions[s].at + k])

\* C10 happens: one session lagged, is still in its loop and has sent
\* frames since, while another session next to it sent every frame.
LaggedAndFastReached ==
    \E s, t \in 1..MaxSessions :
        /\ sessions[s].lagged >= 1
        /\ sessions[s].pc = "loop"
        /\ Len(sessions[s].frames) >= 2
        /\ sessions[t].lagged = 0
        /\ sessions[t].pc = "loop"
        /\ Len(sessions[t].frames) = Len(published)
        /\ Len(published) > ChannelCapacity

\* The number of actions a receiver can still be handed from the channel.
RECURSIVE Undelivered(_, _)
Undelivered(sess, channel) ==
    LET r == recv(sess, channel)
    IN  IF r.kind = "Pending" THEN 0
        ELSE (IF r.kind = "Ok" THEN 1 ELSE 0)
                + Undelivered([sess EXCEPT !.next = r.next], channel)

\* A session whose receiver exists.
Subscribed(s) == sessions[s].pc \in {"handshake", "loop"}

\* The control requests that publish an action.
PublishingRequests ==
    { req \in ControlRequests :
        /\ ~req.upgrade
        /\ control_actions(req, strip_prefix(req.path, builder.control_path)[1]) # <<>> }

\* C11: every publish (a publishing control request, Controller::reload,
\* Controller::show_message) can complete in every state, however far
\* behind the sessions are; the actions a subscribed session can still be
\* handed never number more than the channel capacity; and a session more
\* than the capacity behind is told Lagged by its next recv.
BoundedBuffering ==
    [](/\ Len(published) < MaxPublish =>
            /\ ENABLED controller_reload
            /\ \A msg \in ControllerMessages : ENABLED controller_show_message(msg)
            /\ \A req \in PublishingRequests : ENABLED handle_control(req)
       /\ \A s \in 1..MaxSessions : Subscribed(s) =>
            /\ Undelivered(sessions[s], published) <= ChannelCapacity
            /\ Len(published) - sessions[s].next + 1 > ChannelCapacity
                    => recv(sessions[s], published).kind = "Lagged")

\* C11 happens: a control request has just published while a session in its
\* loop is more than the channel capacity behind.
PublishedPastSlowSessionReached ==
    /\ response.status = 200
    /\ response.req \in PublishingRequests
    /\ \E s \in 1..MaxSessions :
          /\ sessions[s].pc = "loop"
          /\ Len(published) - sessions[s].next + 1 > ChannelCapacity

\* C12: a POST {control_path}/reload appends exactly one Reload to the
\* channel and is answered 200 with an empty body, and it can be handled in
\* every state, whatever the number of subscribed sessions, zero included.
PostReloadAlwaysOk ==
    /\ [][IsPostReload(response'.req) =>
            /\ Len(published') = Len(published) + 1
            /\ published'[Len(published')] = Reload
            /\ SubSeq(published', 1, Len(published)) = published
            /\ response'.status = 200
            /\ response'.body = ""]_vars
    /\ [](Len(published) < MaxPublish =>
            \A req \in ControlRequests : IsPostReload(req) => ENABLED handle_control(req))

\* C12 happens: a POST /reload was answered 200 while no session was
\* subscribed.
ReloadWithoutSubscribersReached ==
    /\ IsPostReload(response.req)
    /\ response.status = 200
    /\ published = <<Reload>>
    /\ \A s \in 1..MaxSessions : ~Subscribed(s)

\* POST {control_path}/message
IsPostMessage(req) ==
    /\ req.method = "POST"
    /\ ~req.upgrade
    /\ req.path = builder.control_path \o <<"/", "m", "e", "s", "s", "a", "g", "e">>

\* C13: a POST {control_path}/message with a UTF-8 body appends exactly one
\* Message(body) and is answered 200 with an empty body; with a body that
\* is not UTF-8 it is answered 400 and nothing is published; every other
\* non-upgrade request under the control path except POST /reload is
\* answered 400 and nothing is published.
ControlErrorsPublishNothing ==
    [][(/\ response'.req # NoRequest
        /\ ~response'.req.upgrade
        /\ starts_with(response'.req.path, builder.control_path)
        /\ ~IsPostReload(response'.req)) =>
            IF IsPostMessage(response'.req) /\ response'.req.body.utf8
            THEN /\ published' = Append(published, <<"Message", response'.req.body.text>>)
                 /\ response'.status = 200
                 /\ response'.body = ""
            ELSE /\ published' = published
                 /\ response'.status = 400]_vars

\* C13 happens: a POST /message whose body is not UTF-8 was answered 400
\* after an earlier message had been published.
BadMessageBodyReached ==
    /\ IsPostMessage(response.req)
    /\ ~response.req.body.utf8
    /\ response.status = 400
    /\ published = <<<<"Message", "hi">>>>

\* C14: a GET request for the URL that inject::into writes into the script
\* tag, {control_path}/client.js, is answered 200 with the client script in
\* which every placeholder is replaced by the control path.
ScriptUrlServed ==
    (/\ response.req.method = "GET"
     /\ ~response.req.upgrade
     /\ Str(response.req.path) = script_src(builder)) =>
        /\ response.status = 200
        /\ response.body = script(builder)

\* What the handler future of a request yields in the current state.
HandlerOutcome(req) ==
    IF backend(req.path, builder) = "control"
    THEN control_outcome(req, strip_prefix(req.path, builder.control_path)[1])
    ELSE LET m == try_serve(req.path, builder.mounts)[1]
         IN  serve(disk, req, Str(m.subpath), m.mount.fs_path, builder)

\* The control requests that publish nothing and open no session.
ReadOnlyRequests ==
    { req \in ServeRequests : ~req.upgrade /\ ~IsPostReload(req) }

ServerHeaderOnEveryResponse ==
    response.req # NoRequest => response.headers.server = <<"Penguin v<version>">>

\* A request that the router hands to the file backend.
IsFileRequest(req) == req # NoRequest /\ backend(req.path, builder) = "file"

\* The directory of the mount that serves a request and the path the
\* request asks for below it.
RootOf(req) == try_serve(req.path, builder.mounts)[1].mount.fs_path
RequestedPath(req) ==
    join(RootOf(req), Str(try_serve(req.path, builder.mounts)[1].subpath))

\* Whether `path` resolves to a descendant of what `root` resolves to.
ResolvesBelow(path, root) ==
    /\ canonicalize(disk, path).err = ""
    /\ canonicalize(disk, root).err = ""
    /\ path_starts_with(canonicalize(disk, path).path, canonicalize(disk, root).path)

\* C17: a 2xx response of the file backend has the content of a file or
\* directory that resolves to a descendant of the resolved root of the
\* mount, and a request whose path resolves outside of that root gets no
\* 2xx response.
TraversalSafety ==
    IsFileRequest(response.req) =>
        /\ response.status \in 200..299 =>
              /\ response.served # <<>>
              /\ ResolvesBelow(response.served[1], RootOf(response.req))
        /\ (/\ exists(disk, RequestedPath(response.req))
            /\ ~ResolvesBelow(RequestedPath(response.req), RootOf(response.req)))
                => response.status \notin 200..299

\* C18: for a request matched to a mount (without a Range header) the
\* response is 404 when the requested path or the root does not exist;
\* else 400 when the requested path does not resolve below the root; else
\* the file when the path is a regular file; else the index.html of the
\* directory when that is a regular file; else the listing of the
\* directory.
ResolutionOrder ==
    (IsFileRequest(response.req) /\ response.req.range = <<>>) =>
        LET root == RootOf(response.req)
            path == RequestedPath(response.req)
        IN  IF ~exists(disk, path) \/ ~exists(disk, root)
            THEN response.status = 404
            ELSE IF ~ResolvesBelow(path, root)
            THEN response.status = 400
            ELSE IF is_file(disk, path)
            THEN response.status = 200 /\ response.served = <<path>>
            ELSE IF is_file(disk, join(path, "index.html"))
            THEN /\ response.status = 200
                 /\ response.served = <<join(path, "index.html")>>
            ELSE /\ response.status = 200
                 /\ response.served = <<path>>
                 /\ response.body = "dir-listing.html"

\* A request with a Range header that the file backend answers from a file
\* that is not HTML.
IsRangeRequest(req) ==
    /\ IsFileRequest(req)
    /\ req.range # <<>>
    /\ ResolvesBelow(RequestedPath(req), RootOf(req))
    /\ is_file(disk, RequestedPath(req))
    /\ mime_guess(RequestedPath(req)) # <<"text/html">>

\* A Range header that is not of the form bytes=<range>,..., each range
\* being <first>-<last>, <first>- or -<suffix length>.
Malformed(header) ==
    \/ header.empty
    \/ ~header.prefix
    \/ \E i \in 1..Len(header.specs) :
          LET spec == header.specs[i]
          IN  \/ spec.start = NaN \/ spec.end = NaN
              \/ spec.start = Blank /\ spec.end = Blank
              \/ spec.start >= 0 /\ spec.end >= 0 /\ spec.start > spec.end

\* The ranges of a well-formed header that overlap a file of `size` bytes.
Overlapping(header, size) ==
    { i \in 1..Len(header.specs) :
        header.specs[i].start = Blank \/ header.specs[i].start < size }

\* C19: for a file that is not HTML and a request with a Range header, a
\* malformed header is answered 400 (or 416 when one of its ranges starts
\* beyond the file), a header none of whose ranges overlaps the file 416, a
\* header with more than one range in the file 400.
RangeErrors ==
    IsRangeRequest(response.req) =>
        LET header == response.req.range[1]
            size == Len(read(disk, RequestedPath(response.req)))
        IN  IF Malformed(header)
            THEN \/ response.status = 400
                 \/ /\ response.status = 416
                    /\ \E i \in 1..Len(header.specs) : header.specs[i].start >= size
            ELSE IF Overlapping(header, size) = {} THEN response.status = 416
            ELSE Cardinality(Overlapping(header, size)) > 1 => response.status = 400

\* The first byte and the number of bytes that a well-formed range selects
\* from a file of `size` bytes.
Selected(spec, size) ==
    IF spec.start = Blank
    THEN LET n == IF spec.end > size THEN size ELSE spec.end
         IN  [start |-> size - n, length |-> n]
    ELSE LET last == IF spec.end = Blank \/ spec.end >= size THEN size - 1 ELSE spec.end
         IN  [start |-> spec.start, length |-> last - spec.start + 1]

\* C20: a well-formed Range header with a single range, selecting `length`
\* bytes from offset `start` of a file of N bytes that is not HTML, is
\* answered 206 with exactly those bytes as the body, start + length <= N,
\* Content-Length: length and Content-Range: bytes start-(start+length)/N.
SingleRangeResponse ==
    (/\ IsRangeRequest(response.req)
     /\ ~Malformed(response.req.range[1])
     /\ Len(response.req.range[1].specs) = 1
     /\ Overlapping(response.req.range[1],
                    Len(read(disk, RequestedPath(response.req)))) # {}) =>
        LET content == read(disk, RequestedPath(response.req))
            N == Len(content)
            sel == Selected(response.req.range[1].specs[1], N)
        IN  /\ response.status = 206
            /\ sel.start + sel.length <= N
            /\ Len(response.body) = sel.length
            /\ \A i \in 1..sel.length :
                  SubSeq(response.body, i, i) = SubSeq(content, sel.start + i, sel.start + i)
            /\ response.headers.content_length = <<to_string(sel.length)>>
            /\ response.headers.content_range =
                  <<"bytes " \o to_string(sel.start) \o "-"
                        \o to_string(sel.start + sel.length) \o "/" \o to_string(N)>>

\* C20 happens: the range 1-2 of the four bytes "abcd" was answered.
MiddleRangeReached ==
    /\ IsRangeRequest(response.req)
    /\ response.req.range[1].specs = <<[start |-> 1, end |-> 2]>>
    /\ response.status = 206
    /\ response.body = "bc"
    /\ response.headers.content_range = <<"bytes 1-3/4">>

\* The least index at or after `from` (counted from 0) at which `pattern`
\* starts in `bytes`, -1 if there is none.
NextIndex(bytes, pattern, from) ==
    LET at == { i \in from..(Len(bytes) - Len(pattern)) :
                    SubSeq(bytes, i + 1, i + Len(pattern)) = pattern }
    IN  IF at = {} THEN -1 ELSE CHOOSE i \in at : \A j \in at : i <= j

\* The indices of `bytes` inside HTML comments, from `from` on: a comment
\* starts at a "<!--" outside of any comment and ends with the first "-->"
\* that begins after its "<!", or with the input.
RECURSIVE Commented(_, _)
Commented(bytes, from) ==
    LET open == NextIndex(bytes, "<!--", from)
        close == NextIndex(bytes, "-->", open + 2)
    IN  IF open = -1 THEN {}
        ELSE IF close = -1 THEN open..(Len(bytes) - 1)
        ELSE open..(close + 2) \cup Commented(bytes, close + 3)

\* The start of the last "</body>" that is not inside a comment, the length
\* of the input if there is none.
InsertionPoint(bytes) ==
    LET at == { i \in 0..(Len(bytes) - 7) :
                    /\ SubSeq(bytes, i + 1, i + 7) = "</body>"
                    /\ i \notin Commented(bytes, 0) }
    IN  IF at = {} THEN Len(bytes) ELSE CHOOSE i \in at : \A j \in at : j <= i

\* The number of occurrences of `pattern` in `bytes`.
Occurrences(bytes, pattern) ==
    Cardinality({ i \in 0..(Len(bytes) - Len(pattern)) :
                    SubSeq(bytes, i + 1, i + Len(pattern)) = pattern })

\* The script tag for the control path of the server.
ScriptTag == "<script src=\"/~~penguin/client.js\" defer></script>"

\* An HTML response of the target that came without Content-Encoding and
\* without a policy was forwarded and answered.
InjectedPlain ==
    /\ forwarded # NotForwarded
    /\ ~forwarded.response.error
    /\ forwarded.response.headers.content_type = Some("text/html")
    /\ forwarded.response.headers.content_encoding = <<>>
    /\ forwarded.response.headers.content_security_policy = <<>>

\* C21: the body sent for an HTML body B is B with the script tag inserted
\* at the start of the last "</body>" outside of a comment, or at the end of
\* B when there is none; taking the tag out again gives B, and the tag
\* occurs once more than in B.
InjectionIsInsertion ==
    InjectedPlain =>
        LET B == forwarded.response.body
            i == InsertionPoint(B)
            out == response.body
        IN  /\ out = SubSeq(B, 1, i) \o ScriptTag \o SubSeq(B, i + 1, Len(B))
            /\ SubSeq(out, 1, i) \o SubSeq(out, i + Len(ScriptTag) + 1, Len(out)) = B
            /\ Occurrences(out, ScriptTag) = Occurrences(B, ScriptTag) + 1

\* A body whose last "</body>" is inside a comment was injected into before
\* the one in front of it.
CommentedBodyTagSkippedReached ==
    /\ InjectedPlain
    /\ forwarded.response.body = "</body><!--</body>"
    /\ response.body = ScriptTag \o "</body><!--</body>"

\* B with the script tag inserted at its insertion point.
Injected(bytes) ==
    SubSeq(bytes, 1, InsertionPoint(bytes)) \o ScriptTag
        \o SubSeq(bytes, InsertionPoint(bytes) + 1, Len(bytes))

\* The bytes that `stream` decodes to under an encoding.
Decoded(encoding, stream) ==
    IF encoding = "gzip" THEN GzDecoder(stream)
    ELSE IF encoding = "br" THEN BrotliDecompress(stream)
    ELSE [ok |-> TRUE, bytes |-> stream]

\* The response of the target that was forwarded is HTML by its
\* Content-Type and carries its body in `encoding`, named by its
\* Content-Encoding (identity also by the absence of the header).
Carries(encoding) ==
    /\ forwarded # NotForwarded
    /\ ~forwarded.response.error
    /\ forwarded.response.headers.content_type # <<>>
    /\ starts_with(forwarded.response.headers.content_type[1], "text/html")
    /\ \/ forwarded.response.headers.content_encoding = Some(encoding)
       \/ encoding = "identity" /\ forwarded.response.headers.content_encoding = <<>>
    /\ Decoded(encoding, forwarded.response.body).ok

\* C22: when the response of the target carries an HTML body X encoded as
\* gzip, br or identity with the matching Content-Encoding, the body sent to
\* the client decodes under the same encoding to X with the script tag
\* injected, and the Content-Encoding header is the one the target sent.
RoundTripReencoding ==
    \A encoding \in SUPPORTED_COMPRESSIONS :
        Carries(encoding) =>
            /\ response.status = 200
            /\ Decoded(encoding, response.body) =
                    [ok |-> TRUE,
                     bytes |-> Injected(Decoded(encoding, forwarded.response.body).bytes)]
            /\ response.headers.content_encoding
                    = forwarded.response.headers.content_encoding

\* The same for the encodings that the match of adjust_response knows.
RoundTripKnownEncodings ==
    \A encoding \in SUPPORTED_COMPRESSIONS :
        (/\ Carries(encoding)
         /\ forwarded.response.headers.content_encoding # Some("identity")
         /\ \A i \in DOMAIN forwarded.response.headers.content_security_policy :
                ~rewrite_csp(forwarded.response.headers.content_security_policy[i]).panicked) =>
            /\ response.status = 200
            /\ Decoded(encoding, response.body) =
                    [ok |-> TRUE,
                     bytes |-> Injected(Decoded(encoding, forwarded.response.body).bytes)]
            /\ response.headers.content_encoding
                    = forwarded.response.headers.content_encoding

\* The entries of a header that name an encoding the proxy can re-encode.
Supported(entries) ==
    SelectSeq(entries, LAMBDA e : e.name \in { "gzip", "br", "identity" })

\* C23: the Accept-Encoding header sent to the target holds exactly the
\* entries of the request's header whose encoding name is gzip, br or
\* identity, in their order and with their parameters, joined by ", "; when
\* there is no such entry filter_encodings returns "" and the header is
\* removed; a request without the header is sent without it; and filtering
\* the filtered value gives the same value.
AcceptEncodingFilter ==
    forwarded # NotForwarded =>
        /\ response.req.accept_encoding = <<>> => forwarded.request.accept_encoding = <<>>
        /\ response.req.accept_encoding # <<>> =>
            \A ae \in AcceptEncodings :
                ae.header = response.req.accept_encoding[1] =>
                    /\ filter_encodings(ae.header) = Render(Supported(ae.entries), ", ")
                    /\ forwarded.request.accept_encoding =
                            IF Supported(ae.entries) = <<>> THEN <<>>
                            ELSE Some(Render(Supported(ae.entries), ", "))
                    /\ filter_encodings(filter_encodings(ae.header))
                            = filter_encodings(ae.header)

\* A header with supported and other entries was filtered.
MixedEncodingsFilteredReached ==
    /\ forwarded # NotForwarded
    /\ response.req.accept_encoding = Some("br;q=1.0 ,  deflate;q=0.5 ,  gzip")
    /\ forwarded.request.accept_encoding = Some("br;q=1.0, gzip")

\* The directives of a serialized policy as a user agent parses them: the
\* tokens between the ';' stripped of whitespace, the empty ones skipped,
\* the first word lowercased as the name, the other words as the sources.
Policy(header) ==
    LET tokens == SelectSeq([i \in DOMAIN split(header, ";") |-> trim(split(header, ";")[i])],
                            LAMBDA token : token # "")
    IN  [i \in DOMAIN tokens |->
            [name |-> to_ascii_lowercase(Head(split_whitespace(tokens[i]))),
             sources |-> Tail(split_whitespace(tokens[i]))]]

\* The directive of a policy that governs `name`: the first directive of
\* this name, else the first default-src, <<>> if there is neither.
Governing(policy, name) ==
    LET named(n) == SelectSeq(policy, LAMBDA d : d.name = n)
    IN  IF named(name) # <<>> THEN <<Head(named(name))>>
        ELSE IF named("default-src") # <<>> THEN <<Head(named("default-src"))>>
        ELSE <<>>

\* The policy permits 'self' for `name`.
Permits(policy, name) ==
    \/ Governing(policy, name) = <<>>
    \/ contains(Governing(policy, name)[1].sources, "'self'")
    \/ contains(Governing(policy, name)[1].sources, "*")

\* Every directive in force of `old` is in `new` with all of its sources,
\* but for a 'none' of script-src and connect-src.
Keeps(old, new) ==
    \A i \in DOMAIN old :
        (\A j \in 1..(i - 1) : old[j].name # old[i].name) =>
            \E k \in DOMAIN new :
                /\ new[k].name = old[i].name
                /\ \A s \in DOMAIN old[i].sources :
                    \/ contains(new[k].sources, old[i].sources[s])
                    \/ /\ old[i].sources[s] = "'none'"
                       /\ old[i].name \in { "script-src", "connect-src" }

\* An HTML response of the target with Content-Security-Policy headers was
\* forwarded and answered.
PolicyForwarded ==
    /\ forwarded # NotForwarded
    /\ ~forwarded.response.error
    /\ forwarded.response.headers.content_type = Some("text/html")
    /\ forwarded.response.headers.content_security_policy # <<>>

\* C24: a Content-Security-Policy value that permits 'self' or * for
\* script-src and for connect-src (each falling back to default-src, and
\* permitted when neither exists) is sent unchanged; any other value is
\* replaced by one that permits 'self' for both and keeps every other
\* directive and source, and rewrite_csp leaves the replaced value unchanged.
CspRewriting ==
    PolicyForwarded =>
        /\ response.status = 200
        /\ \A i \in DOMAIN forwarded.response.headers.content_security_policy :
            LET old == forwarded.response.headers.content_security_policy[i]
                new == response.headers.content_security_policy[i]
            IN  IF Permits(Policy(old), "script-src") /\ Permits(Policy(old), "connect-src")
                THEN new = old
                ELSE /\ Permits(Policy(new), "script-src")
                     /\ Permits(Policy(new), "connect-src")
                     /\ Keeps(Policy(old), Policy(new))
                     /\ rewrite_csp(new) = [panicked |-> FALSE, value |-> new]

\* The same without the second application of rewrite_csp, for the values
\* on which rewrite_csp does not panic.
CspRewritingOnce ==
    (/\ PolicyForwarded
     /\ \A i \in DOMAIN forwarded.response.headers.content_security_policy :
            ~rewrite_csp(forwarded.response.headers.content_security_policy[i]).panicked) =>
        /\ response.status = 200
        /\ \A i \in DOMAIN forwarded.response.headers.content_security_policy :
            LET old == forwarded.response.headers.content_security_policy[i]
                new == response.headers.content_security_policy[i]
            IN  IF Permits(Policy(old), "script-src") /\ Permits(Policy(old), "connect-src")
                THEN new = old
                ELSE /\ Permits(Policy(new), "script-src")
                     /\ Permits(Policy(new), "connect-src")
                     /\ Keeps(Policy(old), Policy(new))

\* The Server future and every Controller have been dropped.
PublishersGone == ~senders.server /\ senders.controllers = 0

\* No WebSocket session task is left.
NoSessionLeft == \A s \in 1..MaxSessions : sessions[s].pc \in { "none", "ended" }

\* C25: once the Server future and every Controller are dropped, every
\* WebSocket session task ends: it delivers what is buffered for it,
\* observes Closed and returns.
SessionsEndWhenPublishersGone == PublishersGone ~> NoSessionLeft

\* The same when no forward and no poller holds a Sender any more.
SessionsEndWhenSendersGone == (PublishersGone /\ TaskSenders = 0) ~> NoSessionLeft

\* C26: a Controller call that publishes while no session is subscribed
\* changes nothing but the log of what was sent: no session, no
\* configuration, no proxy state; and the action is dropped, for a session
\* that subscribes starts behind everything sent before and only ever
\* receives actions sent after its subscription.
PublishWithoutSubscribers ==
    /\ [][(/\ published' # published
           /\ response' = NoResponse
           /\ \A s \in 1..MaxSessions : ~Subscribed(s)) =>
                /\ published' = Append(published, published'[Len(published')])
                /\ UNCHANGED <<sessions, cfgvars, proxyvars, disk, restvars>>]_vars
    /\ [][\A s \in 1..MaxSessions :
            (~Subscribed(s) /\ Subscribed(s)') =>
                /\ sessions'[s].at = Len(published)
                /\ sessions'[s].next = Len(published) + 1
                /\ sessions'[s].frames = <<>>]_vars
    /\ [](\A s \in 1..MaxSessions :
            Subscribed(s) =>
                /\ sessions[s].next > sessions[s].at
                /\ \A k \in DOMAIN sessions[s].indices :
                        sessions[s].indices[k] > sessions[s].at)

\* An action was published while no session had ever subscribed; the
\* session that subscribed afterwards has received a later action.
LateSubscriberReached ==
    /\ sessions[1].pc = "loop"
    /\ sessions[1].at >= 1
    /\ sessions[1].indices # <<>>
    /\ \A s \in 2..MaxSessions : sessions[s].pc = "none"

\* What the scheme of an input is called: the given one in lower case, http
\* when none is given.
SchemeName(input) ==
    IF input.scheme = "" THEN "http"
    ELSE to_ascii_lowercase(SubSeq(input.scheme, 1, Len(input.scheme) - 3))

\* The host is `localhost` or a loopback address.
LocalHost(input) == input.host \in { "localhost", "127.0.0.1", "127.8.0.255" }

\* The string is a URI with an authority.
UriWithAuthority(input) ==
    /\ ~uri_parts(input.src).err
    /\ uri_parts(input.src).authority # <<>>

\* What follows the authority is more than "/".
RealPath(input) == input.tail \notin { "", "/" }

\* from_str decides as stated: acceptance, the target of an accepted
\* string, and the error of a rejected one.
ParsingAsStated(input, res) ==
    /\ res.ok <=> /\ UriWithAuthority(input)
                  /\ ~RealPath(input)
                  /\ input.scheme # "" \/ LocalHost(input)
    /\ res.ok => /\ res.authority = input.authority
                 /\ res.scheme = SchemeName(input)
    /\ uri_parts(input.src).err => res = ProxyTargetParseError("InvalidUri")
    /\ (~uri_parts(input.src).err /\ RealPath(input)) =>
            res = ProxyTargetParseError("HasPath")
    /\ (UriWithAuthority(input) /\ ~RealPath(input) /\ input.scheme = "" /\ ~LocalHost(input)) =>
            res = ProxyTargetParseError("MissingScheme")

\* C27: from_str accepts a string iff it is a URI with an authority, without
\* a path other than "/", and with a scheme or a local host; the target has
\* the given authority and the given scheme, http when none is given; the
\* errors are InvalidUri, HasPath and MissingScheme as stated; and an
\* accepted string followed by "/" is accepted as the same target.
ProxyTargetParsing ==
    proxy_target.parsed =>
        /\ ParsingAsStated(proxy_target.input, proxy_target.result)
        /\ (proxy_target.result.ok /\ proxy_target.input.tail = "") =>
                from_str(proxy_target.input.src \o "/") = proxy_target.result

\* The same with the trailing "/" after a string that has a scheme.
ProxyTargetParsingWithScheme ==
    proxy_target.parsed =>
        /\ ParsingAsStated(proxy_target.input, proxy_target.result)
        /\ (/\ proxy_target.result.ok
            /\ proxy_target.input.tail = ""
            /\ proxy_target.input.scheme # "") =>
                from_str(proxy_target.input.src \o "/") = proxy_target.result

\* A local target without scheme was accepted as an http target.
LocalTargetParsedReached ==
    /\ proxy_target.parsed
    /\ proxy_target.input.src = "localhost:8000"
    /\ proxy_target.result = ParsedTarget("http", "localhost:8000")

\* wait_for_proxy has returned iff its last attempt succeeded, and no attempt
\* before the last one did.
ReturnsOnFirstSuccess ==
    /\ waiter.pc = "returned" <=>
            (waiter.attempts # <<>> /\ waiter.attempts[Len(waiter.attempts)].ok)
    /\ \A k \in 1..(Len(waiter.attempts) - 1) : ~waiter.attempts[k].ok

\* C28: wait_for_proxy returns with the first attempt that succeeds and not
\* before; and after every failed attempt, the first included, poll_period
\* passes before the next attempt begins, so that two consecutive attempts
\* begin at least poll_period apart.
WaitForProxyPolling ==
    /\ ReturnsOnFirstSuccess
    /\ \A k \in 1..(Len(waiter.attempts) - 1) :
            /\ waiter.attempts[k + 1].at - waiter.attempts[k].done >= PollPeriod
            /\ waiter.attempts[k + 1].at - waiter.attempts[k].at >= PollPeriod

\* What the interval does provide: the attempt after k ticks begins no
\* earlier than the k-th tick is due, the first tick being due at the call.
AttemptsPacedByInterval ==
    /\ ReturnsOnFirstSuccess
    /\ \A k \in 1..Len(waiter.attempts) :
            waiter.attempts[k].at >= waiter.start + (k - 2) * PollPeriod

\* The second attempt began right after the first one failed.
SecondAttemptAtOnceReached ==
    /\ Len(waiter.attempts) >= 2
    /\ waiter.attempts[2].at = waiter.attempts[1].done

\* C29: a session whose websocket.send for a received action fails ends with
\* that step: it receives no further action and sends nothing more.
SendFailureEndsSession ==
    [][\A s \in 1..MaxSessions :
        session_send_fails(s) => sessions'[s].pc = "ended"]_vars

\* What holds instead: the failed send leaves the session subscribed, behind
\* the action whose frame was lost, and changes nothing else of it.
SendFailureKeepsSession ==
    [][\A s \in 1..MaxSessions :
        session_send_fails(s) =>
            /\ sessions'[s].pc = "loop"
            /\ sessions'[s].next > sessions[s].next
            /\ sessions'[s].frames = sessions[s].frames]_vars

\* A session has sent the frame of an action after a send of it had failed.
SendAfterFailureReached ==
    \E s \in 1..MaxSessions :
        /\ sockets[s].send_failed
        /\ sessions[s].pc = "loop"
        /\ sessions[s].frames # <<>>
        /\ sessions[s].next > sessions[s].at + 2

\* The step is the websocket.next() branch of session s for the message; the
\* result of a flush matters for a Ping only.
IsFrameStep(s, message) == session_frame(s, message, "Ok")

\* C30: the session ends when the stream of the peer ends, on a Close frame
\* and on a receive error; on a Ping the socket is flushed and the session
\* goes on whatever the flush returns; a Text, Binary or Pong frame is
\* ignored: the session stays as it is, nothing is published, nothing is
\* sent or flushed. (Each line reads "the step is not that branch, or it
\* has the stated effect".)
PeerFrameHandling ==
    [][\A s \in 1..MaxSessions :
        sessions[s].pc = "loop" =>
            /\ \A message \in { "None", "Close", "ResetWithoutClosingHandshake", "Error" } :
                    \/ sessions'[s].pc = "ended"
                    \/ ~IsFrameStep(s, message)
            /\ \A flushed \in FlushResults :
                    \/ /\ sockets'[s].flushed
                       /\ sessions'[s] = sessions[s]
                       /\ published' = published
                    \/ ~session_frame(s, "Ping", flushed)
            /\ \A message \in { "Text", "Binary", "Pong" } :
                    \/ /\ sessions' = sessions
                       /\ Subscribed(s)'
                       /\ published' = published
                       /\ sockets' = sockets
                    \/ ~IsFrameStep(s, message)]_vars

\* A session whose socket was flushed for a Ping is still subscribed and has
\* sent the frame of an action since it subscribed.
PingFlushedReached ==
    \E s \in 1..MaxSessions :
        /\ sockets[s].flushed
        /\ sessions[s].pc = "loop"
        /\ sessions[s].frames # <<>>

\* The pollers that have published their Reload.
Reloaders == { p \in 1..MaxPollers : pollers[p] \in {"sent", "exited"} }

\* C31: a poller leaves its sleep for the send only through a probe that
\* found the target up; nothing is published but one Reload by a poller
\* right after such a probe, so that the channel holds one Reload per poller
\* that got through; the flag is cleared only by a poller that has sent its
\* Reload, in the step in which it exits; and a poller that has exited stays
\* so and publishes nothing.
PollerLifeCycle ==
    /\ [][\A p \in 1..MaxPollers :
            /\ (pollers[p] = "sleep" /\ pollers'[p] # "sleep") =>
                    (target_up /\ pollers'[p] = "connected" /\ published' = published)
            /\ (pollers[p] = "connected" /\ pollers'[p] # "connected") =>
                    /\ pollers'[p] = "sent"
                    /\ published' = Append(published, Reload)
                    /\ is_polling_target' = is_polling_target
            /\ (pollers[p] = "sent" /\ pollers'[p] # "sent") =>
                    /\ pollers'[p] = "exited"
                    /\ published' = published
                    /\ ~is_polling_target'
            /\ pollers[p] = "exited" => pollers'[p] = "exited"]_vars
    /\ [][published' # published =>
            \E p \in 1..MaxPollers : pollers[p] = "connected" /\ pollers'[p] = "sent"]_vars
    /\ [][(is_polling_target /\ ~is_polling_target') =>
            \E p \in 1..MaxPollers : pollers[p] = "sent" /\ pollers'[p] = "exited"]_vars
    /\ [](Len(published) = Cardinality(Reloaders))

\* A poller has exited after its Reload while the next one, started by a
\* later transport error, is still probing a target that is down.
SecondPollerProbingReached ==
    /\ pollers[1] = "exited"
    /\ pollers[2] = "sleep"
    /\ ~target_up
    /\ published = <<Reload>>
    /\ is_polling_target

\* C32: the flag is set only while a poller is running or the request that
\* won the compare-and-swap is about to spawn one; so it is clear once the
\* poller has exited and whenever no poller was spawned, and the next
\* transport error starts a poller.
FlagTracksPoller ==
    is_polling_target => (ActivePollers # {} \/ SpawningRequests # {})

\* A poller has exited and the flag is clear again, the channel holding its
\* Reload, while a later request has hit a transport error.
FlagClearAfterPollerReached ==
    /\ pollers[1] = "exited"
    /\ ~is_polling_target
    /\ \E r \in 1..MaxRequests : requests[r].pc = "failed"

\* The indices of the actions published since the subscription of a session
\* and before its cursor.
SinceSubscription(sess) ==
    [k \in 1..(sess.next - sess.at - 1) |-> sess.at + k]

\* C33: the receiver of a session is subscribed in the step that answers the
\* upgrade request, at the end of the channel, and its starting point never
\* moves; while the handshake is awaited the cursor stays there and the
\* actions published meanwhile are kept for it; in its loop a session that
\* has not lagged has sent the frames of exactly the actions from its
\* starting point up to its cursor, none from before, none left out, and
\* the next one can be received whenever there is one.
SeesActionsSinceSubscription ==
    /\ [][\A s \in 1..MaxSessions :
            /\ (~Subscribed(s) /\ Subscribed(s)') =>
                    /\ response'.status = 101
                    /\ sessions'[s].pc = "handshake"
                    /\ sessions'[s].at = Len(published)
            /\ (Subscribed(s) /\ Subscribed(s)') =>
                    sessions'[s].at = sessions[s].at]_vars
    /\ [](\A s \in 1..MaxSessions :
            /\ sessions[s].pc = "handshake" =>
                    /\ sessions[s].next = sessions[s].at + 1
                    /\ sessions[s].indices = <<>>
                    /\ recv(sessions[s], published).kind # "Lagged"
            /\ (sessions[s].pc = "loop" /\ sessions[s].lagged = 0) =>
                    /\ sessions[s].indices = SinceSubscription(sessions[s])
                    /\ sessions[s].frames =
                            [k \in DOMAIN sessions[s].indices |->
                                data(published[sessions[s].indices[k]])]
                    /\ sessions[s].next <= Len(published) => ENABLED session_recv(s))

\* A session that subscribed after the first action was published has sent
\* the frame of the second one and not of the first, while for another
\* session, still awaiting its handshake, an action has been published.
PublishedDuringHandshakeReached ==
    /\ sessions[1].pc = "loop"
    /\ sessions[1].at = 1
    /\ sessions[1].indices = <<2>>
    /\ sessions[2].pc = "handshake"
    /\ sessions[2].at < Len(published)

\* The Content-Type header of the response of the target names HTML.
HtmlContentType(headers) ==
    /\ headers.content_type # <<>>
    /\ \E type \in { "text/html", "application/xhtml+xml" } :
            /\ Len(headers.content_type[1]) >= Len(type)
            /\ SubSeq(headers.content_type[1], 1, Len(type)) = type

\* The sniffed bytes hold no NUL byte and look like HTML.
LooksLikeHtml(bytes) ==
    /\ \A i \in 1..Len(bytes) : SubSeq(bytes, i, i) # NUL
    /\ is_html(bytes)

\* The bytes of the first k chunks of the origin's body.
FirstBytes(chunks, k) == ChunkBytes(SubSeq(chunks, 1, k))

\* The number of chunks that make the sniffed prefix: the fewest that hold
\* SNIFF_LEN bytes, or all of them.
SniffedChunks(chunks) ==
    CHOOSE k \in 0..Len(chunks) :
        /\ k = Len(chunks) \/ Len(FirstBytes(chunks, k)) >= SNIFF_LEN
        /\ k > 0 => Len(FirstBytes(chunks, k - 1)) < SNIFF_LEN

\* The bytes of the body of a response of the target that are sniffed.
SniffedPrefix(target_response) ==
    IF "chunks" \in DOMAIN target_response
    THEN FirstBytes(target_response.chunks, SniffedChunks(target_response.chunks))
    ELSE target_response.body

\* The forwarded request was answered with the response of a target that
\* sent its whole body, without Content-Encoding and without a redirect.
PlainAnswered ==
    /\ forwarded # NotForwarded
    /\ "location" \notin DOMAIN forwarded.response.headers
    /\ ~forwarded.response.error
    /\ forwarded.response.headers.content_encoding = <<>>
    /\ forwarded.response.headers.content_security_policy = <<>>

\* C34: the body of a proxy response is treated as HTML, that is sent with
\* the script injected, iff its Content-Type is an HTML type, or it has no
\* Content-Type and its sniffed prefix has no NUL byte and looks like HTML; otherwise the body is
\* sent as it came, also when a Content-Type that is not HTML stands
\* before bytes that look like HTML.
HtmlDecisionTable ==
    PlainAnswered =>
        LET headers == forwarded.response.headers
            body == forwarded.response.body
            html == \/ HtmlContentType(headers)
                    \/ /\ headers.content_type = <<>>
                       /\ LooksLikeHtml(SniffedPrefix(forwarded.response))
        IN  /\ html => /\ response.body = Injected(body)
                       /\ response.body # body
            /\ ~html => response.body = body
            /\ response.status = forwarded.response.status

\* A response declared as text/plain whose body looks like HTML was sent
\* unchanged.
DeclaredPlainLooksHtmlReached ==
    /\ PlainAnswered
    /\ forwarded.response.headers.content_type = Some("text/plain")
    /\ LooksLikeHtml(forwarded.response.body)
    /\ response.body = forwarded.response.body

\* The forwarded request was answered by a target that sent its whole body
\* in chunks, and the body is not treated as HTML.
ChunkedNotHtml ==
    /\ forwarded # NotForwarded
    /\ "chunks" \in DOMAIN forwarded.response
    /\ ~forwarded.response.error
    /\ LET headers == forwarded.response.headers
           chunks == forwarded.response.chunks
       IN  ~ \/ HtmlContentType(headers)
             \/ /\ headers.content_type = <<>>
                /\ LooksLikeHtml(SniffedPrefix(forwarded.response))

\* C35: a proxy response that is not treated as HTML reaches the client
\* with the bytes of the origin's body, nothing lost, doubled or reordered
\* whatever the chunks, with its status and its headers; the one chunk that
\* was buffered is the sniffed prefix and the chunks after it are handed on
\* as they came.
PassThroughPreservesBody ==
    ChunkedNotHtml =>
        LET chunks == forwarded.response.chunks
            k == SniffedChunks(chunks)
        IN  /\ response.body = forwarded.response.body
            /\ ChunkBytes(response.stream) = forwarded.response.body
            /\ Head(response.stream) = FirstBytes(chunks, k)
            /\ Tail(response.stream) = SubSeq(chunks, k + 1, Len(chunks))
            /\ response.status = forwarded.response.status
            /\ \A name \in DOMAIN forwarded.response.headers \ { "location" } :
                    response.headers[name] = forwarded.response.headers[name]
            /\ DOMAIN response.headers = DOMAIN forwarded.response.headers

\* A body whose chunk crosses the sniffing limit, with chunks after it, was
\* passed through.
ChunkAcrossLimitReached ==
    /\ ChunkedNotHtml
    /\ Len(Head(response.stream)) > SNIFF_LEN
    /\ Len(response.stream) > 2
    /\ response.body = forwarded.response.body

\* The number a string of decimal digits stands for.
RECURSIVE Decimal(_)
Decimal(digits) ==
    IF digits = "" THEN 0
    ELSE 10 * Decimal(SubSeq(digits, 1, Len(digits) - 1))
            + (CHOOSE d \in 0..9 : SubSeq("0123456789", d + 1, d + 1)
                                        = SubSeq(digits, Len(digits), Len(digits)))

IsDecimal(digits) ==
    /\ digits # ""
    /\ \A k \in 1..Len(digits) :
            \E d \in 0..9 : SubSeq("0123456789", d + 1, d + 1) = SubSeq(digits, k, k)

\* The response is an HTML file of a mount, sent with the script injected.
HtmlFileServed ==
    /\ response.served # <<>>
    /\ response.status = 200
    /\ response.headers.content_type = Some("text/html")

\* The response is the one of the target, treated as HTML.
HtmlForwarded ==
    /\ forwarded # NotForwarded
    /\ ~forwarded.response.error
    /\ response.status = forwarded.response.status
    /\ \/ HtmlContentType(forwarded.response.headers)
       \/ /\ forwarded.response.headers.content_type = <<>>
          /\ LooksLikeHtml(SniffedPrefix(forwarded.response))

\* C36: a response whose body was rewritten, an HTML file of a mount or an
\* HTML response of the target in whatever encoding, carries a
\* Content-Length, when it carries one, that is the number of body bytes
\* sent; an HTML file always carries one.
ContentLengthTruthful ==
    /\ HtmlFileServed => response.headers.content_length # <<>>
    /\ (HtmlFileServed \/ HtmlForwarded) /\ response.headers.content_length # <<>> =>
            /\ IsDecimal(response.headers.content_length[1])
            /\ Decimal(response.headers.content_length[1]) = Len(response.body)

\* A gzip response of the target with a Content-Length that is not the
\* length of its body was sent with the script injected.
StaleLengthCorrectedReached ==
    /\ HtmlForwarded
    /\ forwarded.response.headers.content_encoding = Some("gzip")
    /\ forwarded.response.headers.content_length = Some("7")
    /\ response.body # forwarded.response.body
    /\ response.headers.content_length # Some("7")

\* The directives rewrite_csp reads from a header value are those of the
\* policy: the first whitespace-separated token of each token, in lower
\* case, with the sources of its first occurrence.
ReadsPolicy(header) ==
    LET policy == Policy(header)
        directives == csp_directives(csp_parts(header))
    IN  /\ DOMAIN directives = { policy[i].name : i \in DOMAIN policy }
        /\ \A i \in DOMAIN policy :
                (\A j \in 1..(i - 1) : policy[j].name # policy[i].name) =>
                    directives[policy[i].name] = policy[i].sources

\* A token of the header value that is not empty and holds whitespace only.
HasBlankToken(header) ==
    \E i \in DOMAIN split(header, ";") :
        split(header, ";")[i] # "" /\ trim(split(header, ";")[i]) = ""

\* C37: rewrite_csp returns for every Content-Security-Policy value, the
\* tokens between `;` that are empty or whitespace only contribute no
\* directive, and the directives are the first occurrences of the
\* lower-cased names.
CspParsingTotal ==
    PolicyForwarded =>
        \A i \in DOMAIN forwarded.response.headers.content_security_policy :
            LET old == forwarded.response.headers.content_security_policy[i]
            IN  /\ ~rewrite_csp(old).panicked
                /\ response.status = forwarded.response.status
                /\ ReadsPolicy(old)

\* The same for the values that hold no whitespace-only token.
CspParsingOfTokens ==
    PolicyForwarded =>
        \A i \in DOMAIN forwarded.response.headers.content_security_policy :
            LET old == forwarded.response.headers.content_security_policy[i]
            IN  \/ HasBlankToken(old)
                \/ /\ ~rewrite_csp(old).panicked
                   /\ ReadsPolicy(old)

\* A value whose directive name is repeated in another case and which ends
\* in `;` was read.
RepeatedDirectiveReadReached ==
    /\ PolicyForwarded
    /\ response.status = 200
    /\ forwarded.response.headers.content_security_policy
            = <<"img-src x;Script-Src 'none' y; script-src *">>
    /\ ReadsPolicy("img-src x;Script-Src 'none' y; script-src *")

\* The forwarded request was answered by a target that sent a Location
\* header and its whole body.
Redirected ==
    /\ forwarded # NotForwarded
    /\ ~forwarded.response.error
    /\ "location" \in DOMAIN forwarded.response.headers

\* The value parses as a URI whose authority is the one of the proxy target.
PointsToTarget(value) ==
    /\ \A i \in 1..Len(value) : SubSeq(value, i, i) # BYTE_FF
    /\ ~uri_parts(value).err
    /\ uri_parts(value).authority # <<>>
    /\ to_ascii_lowercase(uri_parts(value).authority[1]) = "localhost:8000"

\* The path of a URI, `/` when it names none, and its query, none or the
\* text after the first `?`.
PathOf(value) ==
    LET pq == IF uri_parts(value).path_and_query = <<>> THEN ""
              ELSE uri_parts(value).path_and_query[1]
        stop == CHOOSE k \in 1..(Len(pq) + 1) :
                    /\ k = Len(pq) + 1 \/ SubSeq(pq, k, k) = "?"
                    /\ \A j \in 1..(k - 1) : SubSeq(pq, j, j) # "?"
    IN  IF stop = 1 THEN "/" ELSE SubSeq(pq, 1, stop - 1)

QueryOf(value) ==
    LET pq == IF uri_parts(value).path_and_query = <<>> THEN ""
              ELSE uri_parts(value).path_and_query[1]
    IN  IF \A k \in 1..Len(pq) : SubSeq(pq, k, k) # "?" THEN <<>>
        ELSE <<SubSeq(pq, 1 + (CHOOSE k \in 1..Len(pq) :
                                /\ SubSeq(pq, k, k) = "?"
                                /\ \A j \in 1..(k - 1) : SubSeq(pq, j, j) # "?"),
                      Len(pq))>>

\* The new value is the URI of the old one with the scheme http and the
\* bind address of the server, path and query as they were.
MovedToBindAddr(old, new) ==
    /\ ~uri_parts(new).err
    /\ uri_parts(new).scheme = Some("http")
    /\ uri_parts(new).authority = Some("127.0.0.1:4090")
    /\ PathOf(new) = PathOf(old)
    /\ QueryOf(new) = QueryOf(old)

\* C38: a Location header of a proxy response that parses as a URI with the
\* authority of the proxy target is replaced by that URI with scheme http
\* and the bind address as authority, path and query unchanged; every other
\* Location header is sent byte for byte as it came.
LocationRewriting ==
    Redirected =>
        /\ response.status = forwarded.response.status
        /\ "location" \in DOMAIN response.headers
        /\ IF PointsToTarget(forwarded.response.headers.location)
           THEN MovedToBindAddr(forwarded.response.headers.location,
                                response.headers.location)
           ELSE response.headers.location = forwarded.response.headers.location

\* The same for the values that name a scheme, or are no redirect to the
\* proxy target.
LocationRewritingWithScheme ==
    (/\ Redirected
     /\ \/ ~PointsToTarget(forwarded.response.headers.location)
        \/ uri_parts(forwarded.response.headers.location).scheme # <<>>) =>
        /\ response.status = forwarded.response.status
        /\ "location" \in DOMAIN response.headers
        /\ IF PointsToTarget(forwarded.response.headers.location)
           THEN MovedToBindAddr(forwarded.response.headers.location,
                                response.headers.location)
           ELSE response.headers.location = forwarded.response.headers.location

\* A redirect to a path and query of the proxy target was sent with the
\* bind address.
RedirectToTargetReached ==
    /\ Redirected
    /\ forwarded.response.headers.location = "https://LOCALHOST:8000/a"
    /\ response.headers.location = "http://127.0.0.1:4090/a"

\* The response is the listing of a folder.
IsListing == "entries" \in DOMAIN response

IsFolderName(name) == Len(name) > 0 /\ SubSeq(name, Len(name), Len(name)) = "/"

BaseName(name) == IF IsFolderName(name) THEN SubSeq(name, 1, Len(name) - 1) ELSE name

\* The segments of a URI path.
Segments(chars) == components(Str(chars))

\* The mounts whose uri_path is a proper child of the listed path.
MountsBelow(listed) ==
    { k \in DOMAIN builder.mounts :
        /\ Len(Segments(builder.mounts[k].uri_path)) > Len(listed)
        /\ SubSeq(Segments(builder.mounts[k].uri_path), 1, Len(listed)) = listed }

\* The folders stand before the files and each group is in the order of
\* the names.
FoldersFirstSorted(entries) ==
    \A i, j \in DOMAIN entries :
        i < j =>
            /\ IsFolderName(entries[i].name) \/ ~IsFolderName(entries[j].name)
            /\ IsFolderName(entries[i].name) = IsFolderName(entries[j].name) =>
                    ~str_lt(entries[j].name, entries[i].name)

\* The entries tagged as mounts are the given mounts, one entry for each,
\* under the first segment below the listed path.
ListsMounts(entries, listed, mounts) ==
    /\ Cardinality({ i \in DOMAIN entries : entries[i].is_mount }) = Cardinality(mounts)
    /\ \A k \in mounts :
            LET name == Segments(builder.mounts[k].uri_path)[Len(listed) + 1]
            IN  Cardinality({ i \in DOMAIN entries :
                                entries[i].is_mount /\ BaseName(entries[i].name) = name })
                    = Cardinality({ m \in mounts :
                        Segments(builder.mounts[m].uri_path)[Len(listed) + 1] = name })

\* C39: a directory listing shows the folders, their names ending in `/`,
\* before the files, each group sorted; every mount whose uri_path is a
\* proper child of the listed path, asked for with or without a trailing
\* `/`, appears once under its first segment below that path, tagged as a
\* mount, and no other mount appears.
DirectoryListing ==
    IsListing =>
        /\ FoldersFirstSorted(response.entries)
        /\ ListsMounts(response.entries, Segments(response.req.path),
                       MountsBelow(Segments(response.req.path)))

\* The same for the mounts whose fs_path exists, when the listed path is
\* asked for with a trailing `/`.
DirectoryListingWithSlash ==
    IsListing =>
        /\ FoldersFirstSorted(response.entries)
        /\ ends_with(response.req.path, "/") =>
                ListsMounts(response.entries, Segments(response.req.path),
                            { k \in MountsBelow(Segments(response.req.path)) :
                                exists(disk, builder.mounts[k].fs_path) })

\* The root was listed with the two mounts below /m, a folder and a file.
TwoMountsListedReached ==
    /\ IsListing
    /\ response.req.path = <<"/">>
    /\ \E i, j \in DOMAIN response.entries :
            /\ response.entries[i] = [name |-> "m/", is_mount |-> TRUE]
            /\ response.entries[j] = [name |-> "m", is_mount |-> TRUE]
            /\ i < j

\* The number of bursts among the events that arrived: an event begins a
\* burst when it is the first or arrives no sooner than the debounce
\* duration after the one before it.
Bursts(arrivals) ==
    Cardinality({ i \in DOMAIN arrivals :
                    i = 1 \/ arrivals[i] - arrivals[i - 1] >= DEBOUNCE_DURATION })

\* The time since the last event.
Quiet == watcher.now - watcher.arrivals[Len(watcher.arrivals)]

\* A burst is going on: its events are in the channel or being debounced.
InBurst == watcher.queue > 0 \/ watcher.pc = "debounce"

====
